---- MODULE Spec2Model ----
(***************************************************************************)
(* A model of farvelade's RougeVertBleu colour class                       *)
(* (src/src/farvelade/_rouge_vert_bleu.py) and of the exceptions it        *)
(* raises (src/src/farvelade/waitaminute).                                 *)
(*                                                                         *)
(* Numbers.  A Python int is a TLA+ integer.  A Python float is a          *)
(* fixed-point number with six decimals, held as the integer count of      *)
(* millionths (1.0 is Micro); every float operation rounds its exact       *)
(* result to the nearest millionth, ties to even, as IEEE arithmetic       *)
(* rounds to the nearest double.  The values that the epsilon clamps of    *)
(* _unitToSigned and _signedToUnit produce lie 1e-10 from a grid point:    *)
(* between the clamps and the rounding to a channel a number is a "fine"   *)
(* record [m, e] standing for m millionths plus e half-epsilons            *)
(* (e * 0.5e-10).  The library functions atanh, tanh and pow are tables    *)
(* of their correctly rounded values at the arguments the model reaches.   *)
(***************************************************************************)
EXTENDS Integers, Sequences, FiniteSets, TLC

\* self and other: two colour objects; err: the exception that left the last
\* call (NoError when it returned); op: the last call and its arguments;
\* test: the local variables of the test method a specification follows
VARIABLES self, other, err, op, test

vars == <<self, other, err, op, test>>

(***************************************************************************)
(* Fixed-point arithmetic.  Intermediate products are split so that no     *)
(* step leaves the 32-bit range of TLC's integers.                         *)
(***************************************************************************)
Micro == 1000 * 1000

Abs(x) == IF x < 0 THEN -x ELSE x

Sgn(x) == IF x < 0 THEN -1 ELSE IF x > 0 THEN 1 ELSE 0

\* a / b for b > 0, rounded to the nearest integer, ties to even
RoundDiv(a, b) ==
  LET q == a \div b
      r == a % b
  IN  IF 2 * r < b THEN q
      ELSE IF 2 * r > b THEN q + 1
      ELSE IF q % 2 = 0 THEN q ELSE q + 1

\* float(n) for an int n
IntToFloat(n) == n * Micro

\* one step of long division: the quotient so far and the remainder, times k
DivStep(qr, k, b) == <<qr[1] * k + ((qr[2] * k) \div b), (qr[2] * k) % b>>

\* a step of 10: one of 5, then one of 2
DivStep10(qr, b) == DivStep(DivStep(qr, 5, b), 2, b)

\* a * 10^6 / b for a >= 0 and b > 0 as <<quotient, remainder>>: six steps
LongDiv(a, b) ==
  DivStep10(DivStep10(DivStep10(DivStep10(DivStep10(DivStep10(
    <<a \div b, a % b>>, b), b), b), b), b), b)

\* the quotient of <<quotient, remainder>> rounded to nearest, ties to even
RoundQuotient(qr, b) ==
  IF 2 * qr[2] < b THEN qr[1]
  ELSE IF 2 * qr[2] > b THEN qr[1] + 1
  ELSE IF qr[1] % 2 = 0 THEN qr[1] ELSE qr[1] + 1

\* the float a / b (b # 0)
DivF(a, b) == Sgn(a) * Sgn(b) * RoundQuotient(LongDiv(Abs(a), Abs(b)), Abs(b))

\* the float a * b
MulF(a, b) ==
  LET ah == Abs(a) \div 1000
      al == Abs(a) % 1000
      bh == Abs(b) \div 1000
      bl == Abs(b) % 1000
      m  == ah * bl + al * bh
      mh == m \div 1000
      ml == m % 1000
  IN  Sgn(a) * Sgn(b) * (ah * bh + mh + RoundDiv(ml * 1000 + al * bl, Micro))

\* round(x) of a float x: the nearest int, ties to even
PyRound(x) == RoundDiv(x, Micro)

(***************************************************************************)
(* Fine numbers: m millionths plus e half-epsilons.                        *)
(***************************************************************************)
Fine(x) == [m |-> x, e |-> 0]

FineAdd(a, b) == [m |-> a.m + b.m, e |-> a.e + b.e]

FineSub(a, b) == [m |-> a.m - b.m, e |-> a.e - b.e]

FineLess(a, b) == a.m < b.m \/ (a.m = b.m /\ a.e < b.e)

FineMin(a, b) == IF FineLess(b, a) THEN b ELSE a

FineMax(a, b) == IF FineLess(a, b) THEN b ELSE a

\* a / 2
FineHalf(a) == [m |-> RoundDiv(a.m, 2), e |-> RoundDiv(a.e, 2)]

\* a * k for a float k
FineMulF(a, k) == [m |-> MulF(a.m, k), e |-> a.e * (k \div Micro)]

\* round(a): the nearest int; on a tie of the millionths the half-epsilons
\* decide, and only then ties go to even
PyRoundFine(a) ==
  LET q == a.m \div Micro
      r == a.m % Micro
  IN  IF 2 * r < Micro THEN q
      ELSE IF 2 * r > Micro THEN q + 1
      ELSE IF a.e > 0 THEN q + 1
      ELSE IF a.e < 0 THEN q
      ELSE IF q % 2 = 0 THEN q ELSE q + 1

\* line 49: epsilon = 1e-10, two half-epsilons
epsilon == [m |-> 0, e |-> 2]

(***************************************************************************)
(* math.atanh, math.tanh and float ** float, tabulated.  AtanhTable holds  *)
(* <<m, e, atanh>> for the fine arguments [m, e] >= 0, TanhTable holds     *)
(* <<r, m, e>> with tanh(r) = [m, e] for r >= 0 (both functions are odd),  *)
(* Pow24Table holds <<x, x ** 2.4>> and PowInv24Table <<x, x ** (1/2.4)>>. *)
(***************************************************************************)
\* BEGIN TABLES
AtanhTable ==
  <<
  <<0, 0, 0>>, <<3922, 0, 3922>>, <<11764, 0, 11765>>, <<19608, 0, 19611>>,
  <<27450, 0, 27457>>, <<35294, 0, 35309>>, <<43138, 0, 43165>>,
  <<50980, 0, 51024>>, <<58824, 0, 58892>>, <<66666, 0, 66765>>,
  <<74510, 0, 74648>>, <<82352, 0, 82539>>, <<90196, 0, 90442>>,
  <<98040, 0, 98356>>, <<105882, 0, 106280>>, <<113726, 0, 114220>>,
  <<121568, 0, 122172>>, <<129412, 0, 130142>>, <<137254, 0, 138126>>,
  <<145098, 0, 146129>>, <<152942, 0, 154152>>, <<160784, 0, 162191>>,
  <<168628, 0, 170254>>, <<176470, 0, 178337>>, <<184314, 0, 186445>>,
  <<192156, 0, 194575>>, <<200000, 0, 202733>>, <<207844, 0, 210917>>,
  <<215686, 0, 219127>>, <<223530, 0, 227369>>, <<231372, 0, 235639>>,
  <<239216, 0, 243942>>, <<247058, 0, 252277>>, <<254902, 0, 260649>>,
  <<262746, 0, 269056>>, <<270588, 0, 277498>>, <<278432, 0, 285981>>,
  <<286274, 0, 294503>>, <<294118, 0, 303068>>, <<301960, 0, 311675>>,
  <<309804, 0, 320329>>, <<317648, 0, 329029>>, <<325490, 0, 337775>>,
  <<333334, 0, 346574>>, <<341176, 0, 355423>>, <<349020, 0, 364327>>,
  <<356862, 0, 373285>>, <<364706, 0, 382303>>, <<372550, 0, 391381>>,
  <<380392, 0, 400518>>, <<388236, 0, 409721>>, <<396078, 0, 418989>>,
  <<403922, 0, 428327>>, <<411764, 0, 437734>>, <<419608, 0, 447216>>,
  <<427450, 0, 456772>>, <<435294, 0, 466410>>, <<443138, 0, 476129>>,
  <<450980, 0, 485930>>, <<458824, 0, 495821>>, <<466666, 0, 505800>>,
  <<474510, 0, 515875>>, <<482352, 0, 526045>>, <<490196, 0, 536318>>,
  <<498040, 0, 546696>>, <<505882, 0, 557180>>, <<513726, 0, 567779>>,
  <<521568, 0, 578491>>, <<529412, 0, 589328>>, <<537254, 0, 600287>>,
  <<545098, 0, 611380>>, <<552942, 0, 622609>>, <<560784, 0, 633976>>,
  <<568628, 0, 645493>>, <<576470, 0, 657160>>, <<584314, 0, 668988>>,
  <<592156, 0, 680980>>, <<600000, 0, 693147>>, <<607844, 0, 705495>>,
  <<615686, 0, 718027>>, <<623530, 0, 730760>>, <<631372, 0, 743694>>,
  <<639216, 0, 756847>>, <<647058, 0, 770221>>, <<654902, 0, 783834>>,
  <<662746, 0, 797695>>, <<670588, 0, 811811>>, <<678432, 0, 826203>>,
  <<686274, 0, 840878>>, <<694118, 0, 855859>>, <<701960, 0, 871154>>,
  <<709804, 0, 886789>>, <<717648, 0, 902778>>, <<725490, 0, 919139>>,
  <<733334, 0, 935903>>, <<741176, 0, 953084>>, <<749020, 0, 970719>>,
  <<756862, 0, 988828>>, <<764706, 0, 1007452>>, <<772550, 0, 1026622>>,
  <<780392, 0, 1046372>>, <<788236, 0, 1066756>>, <<796078, 0, 1087812>>,
  <<803922, 0, 1109603>>, <<811764, 0, 1132180>>, <<819608, 0, 1155622>>,
  <<827450, 0, 1179995>>, <<835294, 0, 1205399>>, <<843138, 0, 1231929>>,
  <<850980, 0, 1259695>>, <<858824, 0, 1288846>>, <<866666, 0, 1319526>>,
  <<874510, 0, 1351938>>, <<882352, 0, 1386290>>, <<890196, 0, 1422869>>,
  <<898040, 0, 1461998>>, <<905882, 0, 1504075>>, <<913726, 0, 1549640>>,
  <<921568, 0, 1599332>>, <<929412, 0, 1654055>>, <<937254, 0, 1714966>>,
  <<945098, 0, 1783759>>, <<952942, 0, 1862856>>, <<960784, 0, 1956007>>,
  <<968628, 0, 2069588>>, <<976470, 0, 2215396>>, <<984314, 0, 2420130>>,
  <<992156, 0, 2768612>>, <<1000000, -2, 11859499>>
  >>

TanhTable ==
  <<
  <<0, 0, 0>>, <<1912, 1912, 0>>, <<3747, 3747, 0>>, <<3899, 3899, 0>>,
  <<3912, 3912, 0>>, <<3921, 3921, 0>>, <<3922, 3922, 0>>, <<3923, 3923, 0>>,
  <<3928, 3928, 0>>, <<3930, 3930, 0>>, <<3932, 3932, 0>>, <<3945, 3945, 0>>,
  <<3950, 3950, 0>>, <<3958, 3958, 0>>, <<4121, 4121, 0>>, <<7843, 7843, 0>>,
  <<7844, 7844, 0>>, <<11765, 11764, 0>>, <<19611, 19608, 0>>,
  <<27457, 27450, 0>>, <<35309, 35294, 0>>, <<43165, 43138, 0>>,
  <<51024, 50980, 0>>, <<58892, 58824, 0>>, <<66765, 66666, 0>>,
  <<68955, 68846, 0>>, <<71712, 71589, 0>>, <<73181, 73051, 0>>,
  <<74648, 74510, 0>>, <<78245, 78086, 0>>, <<81969, 81786, 0>>,
  <<82539, 82352, 0>>, <<83117, 82926, 0>>, <<84321, 84122, 0>>,
  <<87332, 87111, 0>>, <<90442, 90196, 0>>, <<94640, 94358, 0>>,
  <<97217, 96912, 0>>, <<98356, 98040, 0>>, <<102788, 102428, 0>>,
  <<106280, 105882, 0>>, <<114220, 113726, 0>>, <<122172, 121568, 0>>,
  <<130142, 129412, 0>>, <<138126, 137254, 0>>, <<146129, 145098, 0>>,
  <<154152, 152942, 0>>, <<162191, 160784, 0>>, <<170254, 168628, 0>>,
  <<178337, 176470, 0>>, <<186445, 184314, 0>>, <<194575, 192156, 0>>,
  <<202733, 200000, 0>>, <<209495, 206483, 0>>, <<210917, 207844, 0>>,
  <<219127, 215686, 0>>, <<227369, 223530, 0>>, <<235639, 231372, 0>>,
  <<237200, 232849, 0>>, <<243942, 239216, 0>>, <<252277, 247058, 0>>,
  <<260649, 254902, 0>>, <<269056, 262746, 0>>, <<273348, 266737, 0>>,
  <<277498, 270588, 0>>, <<285981, 278432, 0>>, <<294503, 286274, 0>>,
  <<300845, 292086, 0>>, <<303068, 294118, 0>>, <<311675, 301960, 0>>,
  <<320329, 309804, 0>>, <<322746, 311988, 0>>, <<329029, 317648, 0>>,
  <<337775, 325490, 0>>, <<342055, 329311, 0>>, <<346574, 333334, 0>>,
  <<355423, 341176, 0>>, <<357156, 342707, 0>>, <<364327, 349020, 0>>,
  <<373285, 356862, 0>>, <<382303, 364706, 0>>, <<391381, 372550, 0>>,
  <<400518, 380392, 0>>, <<400957, 380768, 0>>, <<404692, 383956, 0>>,
  <<409721, 388236, 0>>, <<418989, 396078, 0>>, <<422658, 399167, 0>>,
  <<428327, 403922, 0>>, <<434334, 408937, 0>>, <<437734, 411764, 0>>,
  <<445956, 418569, 0>>, <<447216, 419608, 0>>, <<455682, 426558, 0>>,
  <<456772, 427450, 0>>, <<463037, 432556, 0>>, <<466410, 435294, 0>>,
  <<476129, 443138, 0>>, <<485930, 450980, 0>>, <<495821, 458824, 0>>,
  <<505800, 466666, 0>>, <<515875, 474510, 0>>, <<522605, 479708, 0>>,
  <<526045, 482352, 0>>, <<536318, 490196, 0>>, <<546696, 498040, 0>>,
  <<557180, 505882, 0>>, <<567779, 513726, 0>>, <<573115, 517643, 0>>,
  <<578491, 521568, 0>>, <<589328, 529412, 0>>, <<600287, 537254, 0>>,
  <<611380, 545098, 0>>, <<612173, 545655, 0>>, <<622609, 552942, 0>>,
  <<633266, 560297, 0>>, <<633976, 560784, 0>>, <<645493, 568628, 0>>,
  <<657160, 576470, 0>>, <<664860, 581589, 0>>, <<668988, 584314, 0>>,
  <<680980, 592156, 0>>, <<682648, 593238, 0>>, <<693147, 600000, 0>>,
  <<705495, 607844, 0>>, <<708981, 610037, 0>>, <<718027, 615686, 0>>,
  <<730760, 623530, 0>>, <<743694, 631372, 0>>, <<752038, 636363, 0>>,
  <<756847, 639216, 0>>, <<770221, 647058, 0>>, <<783834, 654902, 0>>,
  <<797695, 662746, 0>>, <<811811, 670588, 0>>, <<826203, 678432, 0>>,
  <<832175, 681642, 0>>, <<840878, 686274, 0>>, <<844695, 688288, 0>>,
  <<855859, 694118, 0>>, <<871154, 701960, 0>>, <<886789, 709804, 0>>,
  <<902778, 717648, 0>>, <<919139, 725490, 0>>, <<935903, 733334, 0>>,
  <<953084, 741176, 0>>, <<970719, 749020, 0>>, <<987759, 756405, 0>>,
  <<988828, 756862, 0>>, <<1007452, 764706, 0>>, <<1026622, 772550, 0>>,
  <<1046372, 780392, 0>>, <<1066756, 788236, 0>>, <<1087812, 796078, 0>>,
  <<1109603, 803922, 0>>, <<1132180, 811764, 0>>, <<1155622, 819608, 0>>,
  <<1179995, 827450, 0>>, <<1205399, 835294, 0>>, <<1231929, 843138, 0>>,
  <<1259695, 850980, 0>>, <<1288846, 858824, 0>>, <<1319526, 866666, 0>>,
  <<1334791, 870415, 0>>, <<1351938, 874510, 0>>, <<1370554, 878818, 0>>,
  <<1386290, 882352, 0>>, <<1422869, 890196, 0>>, <<1461998, 898040, 0>>,
  <<1504075, 905882, 0>>, <<1549203, 913654, 0>>, <<1549640, 913726, 0>>,
  <<1599332, 921568, 0>>, <<1609967, 923155, 0>>, <<1654055, 929412, 0>>,
  <<1714966, 937254, 0>>, <<1722535, 938168, 0>>, <<1782561, 944970, 0>>,
  <<1783759, 945098, 0>>, <<1829170, 949745, 0>>, <<1862856, 952942, 0>>,
  <<1956007, 960784, 0>>, <<2009963, 964725, 0>>, <<2069588, 968628, 0>>,
  <<2209996, 976218, 0>>, <<2215396, 976470, 0>>, <<2386698, 983238, 0>>,
  <<2420130, 984314, 0>>, <<2768612, 992156, 0>>, <<3040619, 995440, 0>>,
  <<3571849, 998422, 0>>, <<5929750, 999986, 0>>, <<11855577, 1000000, -2>>,
  <<11859499, 1000000, -2>>, <<11863421, 1000000, -2>>,
  <<20000000, 1000000, 0>>, <<23718998, 1000000, 0>>,
  <<254971953, 1000000, 0>>
  >>

Pow24Table ==
  <<
  <<93021, 3347>>, <<96738, 3676>>, <<100455, 4025>>, <<104173, 4391>>,
  <<107890, 4777>>, <<111607, 5182>>, <<115324, 5605>>, <<119041, 6049>>,
  <<122758, 6512>>, <<126475, 6995>>, <<130192, 7499>>, <<133910, 8023>>,
  <<137627, 8568>>, <<141344, 9134>>, <<145061, 9721>>, <<148778, 10330>>,
  <<152495, 10960>>, <<156212, 11612>>, <<159929, 12286>>, <<163646, 12983>>,
  <<167364, 13702>>, <<171081, 14444>>, <<174798, 15209>>, <<178515, 15996>>,
  <<182232, 16807>>, <<185949, 17642>>, <<189666, 18500>>, <<193384, 19382>>,
  <<197100, 20288>>, <<200818, 21219>>, <<204535, 22174>>, <<208252, 23153>>,
  <<211969, 24158>>, <<215686, 25187>>, <<219404, 26241>>, <<223120, 27321>>,
  <<226838, 28426>>, <<230555, 29557>>, <<234272, 30713>>, <<237989, 31896>>,
  <<241706, 33105>>, <<245424, 34340>>, <<249140, 35601>>, <<252858, 36890>>,
  <<256574, 38204>>, <<260292, 39546>>, <<264009, 40915>>, <<267726, 42311>>,
  <<271444, 43735>>, <<275160, 45186>>, <<278878, 46665>>, <<282594, 48172>>,
  <<286312, 49707>>, <<290028, 51269>>, <<293746, 52861>>, <<297464, 54481>>,
  <<301180, 56128>>, <<304898, 57806>>, <<308614, 59511>>, <<312332, 61246>>,
  <<316048, 63010>>, <<319766, 64803>>, <<323483, 66626>>, <<327200, 68478>>,
  <<330918, 70361>>, <<334634, 72272>>, <<338352, 74214>>, <<342068, 76185>>,
  <<345786, 78188>>, <<349502, 80219>>, <<353220, 82283>>, <<356937, 84376>>,
  <<360654, 86500>>, <<364372, 88656>>, <<368088, 90841>>, <<371806, 93059>>,
  <<375522, 95307>>, <<379240, 97587>>, <<382957, 99899>>,
  <<386674, 102242>>, <<390391, 104616>>, <<394108, 107023>>,
  <<397826, 109462>>, <<401542, 111932>>, <<405260, 114436>>,
  <<408977, 116971>>, <<412694, 119538>>, <<416411, 122139>>,
  <<420128, 124772>>, <<423845, 127437>>, <<427562, 130136>>,
  <<431280, 132869>>, <<434997, 135634>>, <<438714, 138432>>,
  <<442431, 141263>>, <<446148, 144128>>, <<449865, 147027>>,
  <<453582, 149959>>, <<457300, 152927>>, <<461017, 155927>>,
  <<464734, 158961>>, <<468451, 162029>>, <<472168, 165132>>,
  <<475885, 168269>>, <<479602, 171441>>, <<483319, 174647>>,
  <<487037, 177889>>, <<490754, 181165>>, <<494471, 184475>>,
  <<498188, 187821>>, <<501905, 191202>>, <<505622, 194618>>,
  <<509339, 198069>>, <<513057, 201557>>, <<516773, 205078>>,
  <<520491, 208637>>, <<524208, 212231>>, <<527925, 215861>>,
  <<531642, 219526>>, <<535359, 223228>>, <<539076, 226966>>,
  <<542793, 230740>>, <<546511, 234551>>, <<550227, 238397>>,
  <<553945, 242281>>, <<557662, 246201>>, <<561379, 250158>>,
  <<565096, 254152>>, <<568813, 258183>>, <<572531, 262251>>,
  <<576247, 266355>>, <<579965, 270498>>, <<583682, 274678>>,
  <<587399, 278894>>, <<591116, 283149>>, <<594833, 287441>>,
  <<598551, 291771>>, <<602267, 296138>>, <<605985, 300544>>,
  <<609701, 304986>>, <<613419, 309469>>, <<617136, 313989>>,
  <<620853, 318547>>, <<624571, 323144>>, <<628287, 327778>>,
  <<632005, 332452>>, <<635721, 337163>>, <<639439, 341915>>,
  <<643155, 346703>>, <<646873, 351533>>, <<650591, 356401>>,
  <<654307, 361306>>, <<658025, 366253>>, <<661741, 371237>>,
  <<665459, 376263>>, <<669175, 381325>>, <<672893, 386430>>,
  <<676610, 391573>>, <<680327, 396755>>, <<684045, 401979>>,
  <<687761, 407240>>, <<691479, 412543>>, <<695195, 417884>>,
  <<698913, 423268>>, <<702630, 428691>>, <<706347, 434154>>,
  <<710064, 439657>>, <<713781, 445201>>, <<717499, 450787>>,
  <<721215, 456410>>, <<724933, 462078>>, <<728649, 467783>>,
  <<732367, 473532>>, <<736084, 479320>>, <<739801, 485150>>,
  <<743518, 491020>>, <<747235, 496932>>, <<750953, 502887>>,
  <<754669, 508880>>, <<758387, 514918>>, <<762104, 520996>>,
  <<765821, 527115>>, <<769538, 533276>>, <<773255, 539479>>,
  <<776973, 545725>>, <<780689, 552011>>, <<784407, 558341>>,
  <<788124, 564712>>, <<791841, 571125>>, <<795558, 577580>>,
  <<799275, 584078>>, <<802992, 590618>>, <<806709, 597201>>,
  <<810427, 603828>>, <<814144, 610496>>, <<817861, 617207>>,
  <<821578, 623961>>, <<825295, 630757>>, <<829012, 637597>>,
  <<832729, 644479>>, <<836446, 651405>>, <<840164, 658376>>,
  <<843881, 665388>>, <<847598, 672444>>, <<851315, 679543>>,
  <<855032, 686685>>, <<858749, 693871>>, <<862466, 701101>>,
  <<866184, 708377>>, <<869900, 715692>>, <<873618, 723056>>,
  <<877335, 730461>>, <<881052, 737911>>, <<884769, 745404>>,
  <<888486, 752942>>, <<892204, 760526>>, <<895920, 768150>>,
  <<899638, 775823>>, <<903355, 783538>>, <<907072, 791298>>,
  <<910789, 799103>>, <<914506, 806952>>, <<918223, 814846>>,
  <<921940, 822785>>, <<925658, 830771>>, <<929374, 838798>>,
  <<933092, 846874>>, <<936809, 854993>>, <<940526, 863157>>,
  <<944243, 871367>>, <<947960, 879622>>, <<951678, 887925>>,
  <<955394, 896268>>, <<959112, 904662>>, <<962828, 913097>>,
  <<966546, 921582>>, <<970263, 930111>>, <<973980, 938685>>,
  <<977698, 947308>>, <<981414, 955972>>, <<985132, 964687>>,
  <<988848, 973444>>, <<992566, 982251>>, <<996282, 991100>>,
  <<1000000, 1000000>>
  >>

PowInv24Table ==
  <<
  <<3347, 93026>>, <<3676, 96733>>, <<4025, 100458>>, <<4391, 104168>>,
  <<4777, 107890>>, <<5182, 111611>>, <<5605, 115320>>, <<6049, 119042>>,
  <<6512, 122757>>, <<6995, 126472>>, <<7499, 130192>>, <<8023, 133908>>,
  <<8568, 137626>>, <<9134, 141343>>, <<9721, 145060>>, <<10330, 148779>>,
  <<10523, 149931>>, <<10960, 152495>>, <<11612, 156211>>, <<12286, 159927>>,
  <<12983, 163646>>, <<13702, 167363>>, <<13983, 168785>>, <<14444, 171082>>,
  <<15209, 174800>>, <<15996, 178514>>, <<16807, 182230>>, <<17642, 185949>>,
  <<18500, 189665>>, <<18895, 191342>>, <<19382, 193382>>, <<20288, 197098>>,
  <<21219, 200818>>, <<22174, 204535>>, <<23153, 208251>>, <<24158, 211970>>,
  <<24245, 212288>>, <<25187, 215687>>, <<26241, 219403>>, <<27321, 223121>>,
  <<27966, 225301>>, <<28426, 226838>>, <<29557, 230555>>, <<30713, 234270>>,
  <<31896, 237989>>, <<33105, 241707>>, <<33363, 242490>>, <<34340, 245424>>,
  <<35601, 249139>>, <<36890, 252859>>, <<38204, 256574>>, <<39546, 260291>>,
  <<40915, 264008>>, <<42311, 267725>>, <<43735, 271443>>, <<44536, 273504>>,
  <<44540, 273514>>, <<45186, 275160>>, <<46665, 278877>>, <<47021, 279762>>,
  <<48172, 282595>>, <<49707, 286313>>, <<51269, 290028>>, <<52615, 293176>>,
  <<52861, 293747>>, <<53855, 296036>>, <<53856, 296038>>, <<54481, 297465>>,
  <<55340, 299410>>, <<55421, 299593>>, <<56128, 301179>>, <<57498, 304221>>,
  <<57500, 304225>>, <<57565, 304368>>, <<57566, 304370>>, <<57806, 304899>>,
  <<58688, 306828>>, <<59511, 308614>>, <<61246, 312331>>, <<63010, 316049>>,
  <<64248, 318621>>, <<64803, 319765>>, <<66189, 322597>>, <<66190, 322599>>,
  <<66626, 323483>>, <<68478, 327200>>, <<69915, 330043>>, <<70361, 330919>>,
  <<72272, 334635>>, <<74214, 338352>>, <<76185, 342068>>, <<76416, 342500>>,
  <<78188, 345787>>, <<80219, 349501>>, <<82283, 353220>>, <<83898, 356093>>,
  <<84376, 356937>>, <<86500, 360653>>, <<87240, 361936>>, <<88656, 364372>>,
  <<90841, 368087>>, <<93059, 371806>>, <<95307, 375522>>, <<97587, 379239>>,
  <<97841, 379650>>, <<99167, 381786>>, <<99899, 382957>>,
  <<101563, 385602>>, <<101572, 385617>>, <<102242, 386675>>,
  <<104616, 390390>>, <<105229, 391342>>, <<107023, 394108>>,
  <<109462, 397826>>, <<111932, 401542>>, <<114436, 405261>>,
  <<114565, 405451>>, <<114566, 405452>>, <<116971, 408977>>,
  <<119538, 412693>>, <<120303, 413792>>, <<121225, 415110>>,
  <<121995, 416207>>, <<122139, 416411>>, <<122186, 416478>>,
  <<124772, 420128>>, <<124793, 420158>>, <<125119, 420615>>,
  <<126871, 423059>>, <<127156, 423455>>, <<127437, 423844>>,
  <<128523, 425346>>, <<130136, 427562>>, <<130234, 427696>>,
  <<130235, 427697>>, <<131519, 429449>>, <<132869, 431281>>,
  <<135634, 434998>>, <<135956, 435428>>, <<135957, 435429>>,
  <<138432, 438714>>, <<138552, 438873>>, <<138716, 439089>>,
  <<139830, 440555>>, <<141263, 442431>>, <<144128, 446148>>,
  <<147027, 449865>>, <<147908, 450986>>, <<149959, 453581>>,
  <<151410, 455405>>, <<152927, 457301>>, <<155091, 459986>>,
  <<155927, 461017>>, <<157844, 463370>>, <<158961, 464734>>,
  <<162029, 468450>>, <<164076, 470907>>, <<165132, 472168>>,
  <<165449, 472545>>, <<168269, 475885>>, <<170118, 478057>>,
  <<170531, 478540>>, <<171441, 479602>>, <<174647, 483319>>,
  <<175331, 484107>>, <<177889, 487037>>, <<178115, 487295>>,
  <<178884, 488170>>, <<178885, 488172>>, <<181165, 490755>>,
  <<184475, 494471>>, <<187190, 497490>>, <<187218, 497521>>,
  <<187821, 498188>>, <<191202, 501905>>, <<194618, 505622>>,
  <<194947, 505978>>, <<198069, 509339>>, <<201557, 513057>>,
  <<205078, 516773>>, <<208637, 520491>>, <<209746, 521642>>,
  <<210459, 522380>>, <<212231, 524208>>, <<212349, 524329>>,
  <<212904, 524900>>, <<215861, 527925>>, <<215862, 527926>>,
  <<217409, 529500>>, <<219526, 531642>>, <<221610, 533739>>,
  <<223228, 535359>>, <<224697, 536824>>, <<226865, 538976>>,
  <<226875, 538986>>, <<226966, 539076>>, <<228430, 540523>>,
  <<230740, 542793>>, <<231345, 543386>>, <<231377, 543417>>,
  <<231378, 543418>>, <<234551, 546511>>, <<235103, 547046>>,
  <<237867, 549717>>, <<238397, 550227>>, <<239569, 551353>>,
  <<239570, 551354>>, <<240259, 552014>>, <<240260, 552015>>,
  <<242281, 553945>>, <<242450, 554106>>, <<246201, 557662>>,
  <<247620, 558999>>, <<250158, 561379>>, <<254152, 565096>>,
  <<256187, 566977>>, <<256188, 566978>>, <<258183, 568813>>,
  <<260238, 570696>>, <<260239, 570696>>, <<262251, 572531>>,
  <<264424, 574503>>, <<266355, 576247>>, <<270498, 579965>>,
  <<274678, 583682>>, <<276422, 585224>>, <<276670, 585442>>,
  <<276671, 585443>>, <<277103, 585824>>, <<278345, 586917>>,
  <<278346, 586918>>, <<278894, 587399>>, <<279661, 588071>>,
  <<280630, 588919>>, <<281530, 589706>>, <<283149, 591116>>,
  <<287441, 594833>>, <<291652, 598449>>, <<291653, 598450>>,
  <<291771, 598551>>, <<296138, 602267>>, <<300544, 605985>>,
  <<304393, 609206>>, <<304986, 609701>>, <<309469, 613419>>,
  <<310575, 614331>>, <<311877, 615403>>, <<313989, 617136>>,
  <<314979, 617946>>, <<318547, 620853>>, <<320533, 622463>>,
  <<322471, 624029>>, <<322472, 624029>>, <<323144, 624571>>,
  <<327778, 628287>>, <<332452, 632005>>, <<335635, 634519>>,
  <<337163, 635721>>, <<337756, 636187>>, <<339477, 637535>>,
  <<341627, 639215>>, <<341915, 639439>>, <<342025, 639525>>,
  <<343327, 640538>>, <<346703, 643155>>, <<351533, 646873>>,
  <<353566, 648429>>, <<356401, 650591>>, <<357130, 651145>>,
  <<361306, 654307>>, <<361379, 654362>>, <<363675, 656091>>,
  <<366253, 658025>>, <<367311, 658816>>, <<370950, 661528>>,
  <<371237, 661741>>, <<376263, 665459>>, <<381325, 669175>>,
  <<383388, 670681>>, <<386430, 672893>>, <<391573, 676610>>,
  <<393714, 678149>>, <<395951, 679752>>, <<396755, 680327>>,
  <<401979, 684045>>, <<407240, 687761>>, <<407654, 688052>>,
  <<411569, 690798>>, <<411986, 691090>>, <<412543, 691479>>,
  <<417884, 695195>>, <<419491, 696308>>, <<420918, 697294>>,
  <<421353, 697594>>, <<423268, 698913>>, <<424089, 699478>>,
  <<424101, 699486>>, <<426338, 701021>>, <<426339, 701021>>,
  <<428691, 702630>>, <<434154, 706347>>, <<435932, 707551>>,
  <<439657, 710064>>, <<440134, 710385>>, <<442826, 712192>>,
  <<443998, 712977>>, <<445201, 713781>>, <<450649, 717408>>,
  <<450787, 717499>>, <<456410, 721215>>, <<462078, 724933>>,
  <<463394, 725793>>, <<467783, 728649>>, <<470205, 730219>>,
  <<473532, 732367>>, <<473636, 732434>>, <<479320, 736084>>,
  <<484900, 739642>>, <<485150, 739801>>, <<488380, 741849>>,
  <<491020, 743518>>, <<496281, 746827>>, <<496932, 747235>>,
  <<502887, 750953>>, <<508880, 754669>>, <<511876, 756517>>,
  <<511878, 756518>>, <<514918, 758387>>, <<517224, 759800>>,
  <<520996, 762104>>, <<527115, 765821>>, <<528479, 766646>>,
  <<533276, 769538>>, <<535289, 770747>>, <<539309, 773153>>,
  <<539479, 773255>>, <<541369, 774383>>, <<543200, 775473>>,
  <<545423, 776794>>, <<545725, 776973>>, <<548721, 778747>>,
  <<550038, 779525>>, <<552011, 780689>>, <<553667, 781664>>,
  <<554207, 781982>>, <<558341, 784407>>, <<559322, 784981>>,
  <<564712, 788124>>, <<571125, 791841>>, <<577580, 795558>>,
  <<578290, 795965>>, <<579774, 796816>>, <<584078, 799275>>,
  <<584209, 799350>>, <<587053, 800969>>, <<587055, 800970>>,
  <<590618, 802992>>, <<597201, 806709>>, <<603828, 810427>>,
  <<610496, 814144>>, <<617207, 817861>>, <<623961, 821578>>,
  <<630512, 825161>>, <<630757, 825295>>, <<637597, 829012>>,
  <<637740, 829090>>, <<643252, 832068>>, <<644479, 832729>>,
  <<646547, 833841>>, <<651405, 836446>>, <<652378, 836966>>,
  <<658376, 840164>>, <<660186, 841126>>, <<665388, 843881>>,
  <<672444, 847598>>, <<679543, 851315>>, <<686685, 855032>>,
  <<692761, 858176>>, <<693871, 858749>>, <<696641, 860176>>,
  <<701101, 862466>>, <<705308, 864618>>, <<708377, 866184>>,
  <<715692, 869900>>, <<723056, 873618>>, <<725464, 874829>>,
  <<730461, 877335>>, <<737911, 881052>>, <<742201, 883183>>,
  <<745404, 884769>>, <<752942, 888486>>, <<758614, 891269>>,
  <<760526, 892204>>, <<766830, 895278>>, <<768150, 895920>>,
  <<775823, 899638>>, <<783538, 903355>>, <<788518, 905743>>,
  <<791298, 907072>>, <<799103, 910789>>, <<806952, 914506>>,
  <<814846, 918223>>, <<822785, 921940>>, <<830771, 925658>>,
  <<831310, 925908>>, <<831962, 926211>>, <<838798, 929374>>,
  <<838982, 929459>>, <<844833, 932154>>, <<846874, 933092>>,
  <<854993, 936809>>, <<863157, 940526>>, <<864706, 941229>>,
  <<871016, 944085>>, <<871367, 944243>>, <<875083, 945919>>,
  <<879622, 947960>>, <<887925, 951678>>, <<896268, 955394>>,
  <<899310, 956744>>, <<904662, 959112>>, <<906409, 959883>>,
  <<913097, 962828>>, <<917695, 964845>>, <<921582, 966546>>,
  <<924317, 967740>>, <<927578, 969161>>, <<930111, 970263>>,
  <<931037, 970665>>, <<938685, 973980>>, <<940411, 974726>>,
  <<942127, 975466>>, <<947308, 977698>>, <<948510, 978215>>,
  <<955972, 981414>>, <<964687, 985132>>, <<969800, 987304>>,
  <<973444, 988848>>, <<982251, 992566>>, <<988070, 995012>>,
  <<991100, 996282>>, <<1000000, 1000000>>
  >>

CubeRootTable ==
  <<
  <<911, 96941>>, <<912, 96976>>, <<1099, 103197>>, <<1361, 110820>>,
  <<1787, 121350>>, <<1821, 122115>>, <<1822, 122138>>, <<2160, 129266>>,
  <<2585, 137242>>, <<2847, 141730>>, <<29685, 309632>>, <<38515, 337710>>,
  <<43463, 351593>>, <<48172, 363858>>, <<48173, 363860>>, <<48729, 365255>>,
  <<49510, 367196>>, <<50772, 370290>>, <<51268, 371491>>, <<51269, 371494>>,
  <<51881, 372966>>, <<53081, 375820>>, <<53144, 375968>>, <<53924, 377799>>,
  <<54969, 380224>>, <<55053, 380417>>, <<57049, 384960>>, <<58146, 387412>>,
  <<59852, 391165>>, <<61527, 394780>>, <<62079, 395957>>, <<63728, 399433>>,
  <<64447, 400929>>, <<64838, 401738>>, <<68684, 409530>>, <<72143, 416292>>,
  <<73463, 418816>>, <<74213, 420236>>, <<74214, 420238>>, <<75065, 421838>>,
  <<82867, 435974>>, <<83849, 437689>>, <<86578, 442387>>, <<88302, 445304>>,
  <<106547, 474075>>, <<109462, 478360>>, <<109463, 478361>>,
  <<118561, 491263>>, <<119765, 492920>>, <<121445, 495214>>,
  <<123047, 497382>>, <<129271, 505631>>, <<131496, 508515>>,
  <<134165, 511933>>, <<134925, 512898>>, <<136260, 514584>>,
  <<137624, 516295>>, <<140134, 519415>>, <<140441, 519794>>,
  <<140527, 519900>>, <<141875, 521557>>, <<145408, 525851>>,
  <<145848, 526381>>, <<147505, 528367>>, <<152671, 534464>>,
  <<153766, 535739>>, <<157948, 540553>>, <<160245, 543160>>,
  <<164949, 548424>>, <<167381, 551106>>, <<171204, 555271>>,
  <<177806, 562318>>, <<179870, 564486>>, <<184428, 569214>>,
  <<184623, 569415>>, <<187311, 572165>>, <<188325, 573195>>,
  <<188782, 573659>>, <<189513, 574398>>, <<191222, 576120>>,
  <<191539, 576438>>, <<193260, 578159>>, <<193356, 578255>>,
  <<194050, 578946>>, <<195549, 580433>>, <<198348, 583189>>,
  <<201835, 586587>>, <<202116, 586859>>, <<207868, 592374>>,
  <<209327, 593757>>, <<209793, 594197>>, <<211903, 596182>>,
  <<214590, 598692>>, <<215860, 599870>>, <<215861, 599871>>,
  <<215862, 599872>>, <<217714, 601583>>, <<222551, 606005>>,
  <<222715, 606154>>, <<223597, 606953>>, <<225212, 608411>>,
  <<228826, 611648>>, <<229201, 611982>>, <<232013, 614475>>,
  <<237278, 619088>>, <<237991, 619708>>, <<239014, 620594>>,
  <<239480, 620997>>, <<240303, 621708>>, <<245068, 625790>>,
  <<245723, 626347>>, <<247083, 627501>>, <<247417, 627783>>,
  <<248013, 628287>>, <<248489, 628689>>, <<249165, 629258>>,
  <<253599, 632969>>, <<254151, 633428>>, <<254152, 633429>>,
  <<254269, 633526>>, <<254299, 633551>>, <<255091, 634208>>,
  <<255310, 634389>>, <<256530, 635398>>, <<257024, 635806>>,
  <<257958, 636575>>, <<258386, 636927>>, <<258548, 637060>>,
  <<261070, 639125>>, <<262251, 640087>>, <<262863, 640585>>,
  <<262888, 640605>>, <<264682, 642059>>, <<265218, 642492>>,
  <<265940, 643074>>, <<267235, 644117>>, <<268026, 644751>>,
  <<269109, 645619>>, <<270577, 646790>>, <<270991, 647120>>,
  <<271663, 647655>>, <<277082, 651933>>, <<280152, 654332>>,
  <<281899, 655689>>, <<282161, 655892>>, <<282808, 656393>>,
  <<288907, 661078>>, <<292990, 664178>>, <<299797, 669282>>,
  <<302325, 671158>>, <<303332, 671902>>, <<304078, 672453>>,
  <<305387, 673416>>, <<310605, 677230>>, <<310933, 677468>>,
  <<313805, 679548>>, <<315108, 680487>>, <<320666, 684465>>,
  <<325322, 687761>>, <<330234, 691206>>, <<332062, 692479>>,
  <<332844, 693022>>, <<334595, 694235>>, <<340626, 698381>>,
  <<341673, 699096>>, <<342945, 699963>>, <<344765, 701199>>,
  <<347048, 702743>>, <<353610, 707145>>, <<354373, 707653>>,
  <<357749, 709893>>, <<358066, 710102>>, <<360269, 711556>>,
  <<360974, 712020>>, <<367923, 716560>>, <<369041, 717285>>,
  <<372175, 719309>>, <<377505, 722727>>, <<382187, 725703>>,
  <<388135, 729448>>, <<388808, 729869>>, <<393659, 732892>>,
  <<395219, 733859>>, <<397762, 735430>>, <<401512, 737734>>,
  <<401908, 737976>>, <<405086, 739916>>, <<410331, 743096>>,
  <<412184, 744213>>, <<412221, 744235>>, <<413714, 745132>>,
  <<415427, 746159>>, <<420869, 749403>>, <<421018, 749492>>,
  <<422416, 750320>>, <<431232, 755504>>, <<440345, 760789>>,
  <<443834, 762793>>, <<446581, 764364>>, <<448483, 765447>>,
  <<460305, 772115>>, <<461664, 772874>>, <<463365, 773822>>,
  <<467114, 775903>>, <<479015, 782438>>, <<480507, 783249>>,
  <<483661, 784959>>, <<484871, 785613>>, <<486027, 786237>>,
  <<493469, 790230>>, <<494473, 790765>>, <<497435, 792341>>,
  <<499906, 793651>>, <<516658, 802419>>, <<522090, 805221>>,
  <<527528, 808007>>, <<528068, 808283>>, <<532011, 810289>>,
  <<534197, 811398>>, <<547810, 818232>>, <<551469, 820050>>,
  <<559137, 823833>>, <<565061, 826733>>, <<571905, 830057>>,
  <<580515, 834202>>, <<586091, 836864>>, <<587779, 837667>>,
  <<593539, 840394>>, <<599932, 843401>>, <<601553, 844160>>,
  <<614134, 850004>>, <<623412, 854263>>, <<635784, 859877>>,
  <<645852, 864393>>, <<650718, 866558>>, <<668555, 874404>>,
  <<669479, 874807>>, <<674612, 877037>>, <<712466, 893144>>,
  <<737239, 903378>>, <<755704, 910858>>, <<780195, 920593>>,
  <<782507, 921502>>, <<788097, 923691>>, <<795608, 926616>>,
  <<911698, 969654>>, <<1000000, 1000000>>
  >>
\* END TABLES

\* the row of table T whose first k entries are key
TableRow(T, k, key) == T[CHOOSE i \in 1..Len(T) : SubSeq(T[i], 1, k) = key]

\* a table as a function of the tuple of its first k entries
TableFn(T, k) == [key \in {SubSeq(T[i], 1, k) : i \in 1..Len(T)} |-> TableRow(T, k, key)]

AtanhFn == TableFn(AtanhTable, 2)

TanhFn == TableFn(TanhTable, 1)

Pow24Fn == TableFn(Pow24Table, 1)

PowInv24Fn == TableFn(PowInv24Table, 1)

CubeRootFn == TableFn(CubeRootTable, 1)

\* math.atanh of a fine number strictly between -1 and 1
atanh(x) ==
  IF FineLess(x, Fine(0))
  THEN -AtanhFn[<<-x.m, -x.e>>][3]
  ELSE AtanhFn[<<x.m, x.e>>][3]

\* math.tanh of a float, as a fine number
tanh(x) ==
  IF x < 0
  THEN [m |-> -TanhFn[<<-x>>][2], e |-> -TanhFn[<<-x>>][3]]
  ELSE [m |-> TanhFn[<<x>>][2], e |-> TanhFn[<<x>>][3]]

\* the exponents 2.4 and 1 / 2.4 of lines 228 and 309
Exp24 == 2400 * 1000

ExpInv24 == DivF(Micro, Exp24)

\* x ** y for a float x in [0, 1]
pow(x, y) == IF y = Exp24 THEN Pow24Fn[<<x>>][2] ELSE PowInv24Fn[<<x>>][2]

(***************************************************************************)
(* Exceptions.  A call returns a record whose err field names the          *)
(* exception that left it, NoError when it returned normally.              *)
(***************************************************************************)
NoError == "none"

OkV(v) == [err |-> NoError, val |-> v]

FailV(e) == [err |-> e, val |-> 0]

Ok(s) == [err |-> NoError, self |-> s]

Fail(e, s) == [err |-> e, self |-> s]

\* statement; statement: the second runs on the object the first left, unless
\* the first raised
Then(first, Second(_)) == IF first.err # NoError THEN first ELSE Second(first.self)

\* a call whose argument expression may raise before the call is made
WithValue(v, this, Callee(_)) == IF v.err # NoError THEN Fail(v.err, this) ELSE Callee(v.val)

\* format % value for one value: the format must hold exactly one
\* conversion specifier, else "not all arguments converted" (TypeError)
Format(specifiers) ==
  IF specifiers = 1 THEN [err |-> NoError, specifiers |-> 0]
  ELSE [err |-> "TypeError", specifiers |-> specifiers]

\* the exception that `raise IntegerDomainException(value)` propagates:
\* line 32 formats the one specifier of the message, line 34 formats again
IntegerDomainException(value) ==
  IF Format(1).err # NoError THEN Format(1).err
  ELSE IF Format(Format(1).specifiers).err # NoError
  THEN Format(Format(1).specifiers).err
  ELSE "IntegerDomainException"

\* the exception that `raise UnitDomainException(value)` propagates:
\* line 33 formats the one specifier of the message
UnitDomainException(value) ==
  IF Format(1).err # NoError THEN Format(1).err ELSE "UnitDomainException"

(***************************************************************************)
(* Validators and domain shifts.                                           *)
(***************************************************************************)
_validateIntegerRange(value) ==
  IF value < 0 \/ value > 255 THEN IntegerDomainException(value) ELSE NoError

\* a faulty variant of _validateUnitRange: the test of the lower end is lost
_validateUnitRangeUpperOnly(value) ==
  IF value > Micro THEN UnitDomainException(value) ELSE NoError

_validateUnitRange(value) ==
  IF value < 0 \/ value > Micro THEN UnitDomainException(value) ELSE NoError

_unitToSigned(value) ==
  LET out0 == Fine(MulF(value, IntToFloat(2)) - Micro)
      out1 == FineMin(FineSub(Fine(Micro), epsilon), out0)
  IN  FineMax(FineAdd(Fine(-Micro), epsilon), out1)

\* a faulty variant of _signedToUnit: the division by 2 is lost
_signedToUnitNoHalf(value) ==
  FineMax(FineAdd(Fine(0), epsilon),
          FineMin(FineSub(Fine(Micro), epsilon), FineAdd(value, Fine(Micro))))

_signedToUnit(value) ==
  LET out0 == FineHalf(FineAdd(value, Fine(Micro)))
      out1 == FineMin(FineSub(Fine(Micro), epsilon), out0)
  IN  FineMax(FineAdd(Fine(0), epsilon), out1)

_unitToReal(value) ==
  IF value > Micro \/ value < 0
  THEN FailV(UnitDomainException(value))
  ELSE OkV(atanh(_unitToSigned(value)))

_realToUnit(value) == _signedToUnit(tanh(value))

_applyGamma(value) ==
  IF value < 0 \/ value > Micro THEN FailV(UnitDomainException(value))
  ELSE IF value < 40450 THEN OkV(DivF(value, 12920000))
  ELSE OkV(pow(DivF(value + 55000, 1055000), Exp24))

_unApplyGamma(value) ==
  IF value < 0 \/ value > Micro THEN FailV(UnitDomainException(value))
  ELSE IF value < 3131 THEN OkV(MulF(value, 12920000))
  ELSE OkV(MulF(1055000, pow(value, ExpInv24)) - 55000)

(***************************************************************************)
(* The colour object.  A private channel variable is <<>> while it is      *)
(* None (the class attribute of lines 75-77) and <<v>> once v is stored.   *)
(***************************************************************************)
None == <<>>

\* a new instance before __init__ runs: the class attributes, lines 75-77
NewObject == [red_channel |-> None, green_channel |-> None, blue_channel |-> None]

\* worktoy.parse.maybe: the first argument that is not None
maybe(value, fallback) == IF value = None THEN fallback ELSE value[1]

red_fallback == 255

green_fallback == 255

blue_fallback == 255

\* getters of the stored channels
_getRed(this) == maybe(this.red_channel, red_fallback)

_getGreen(this) == maybe(this.green_channel, green_fallback)

_getBlue(this) == maybe(this.blue_channel, blue_fallback)

\* setters of the stored channels
_setRed(this, value) == Ok([this EXCEPT !.red_channel = <<value>>])

\* a faulty variant of _setGreen: it writes the red channel
_setGreenWritesRed(this, value) == Ok([this EXCEPT !.red_channel = <<value>>])

_setGreen(this, value) == Ok([this EXCEPT !.green_channel = <<value>>])

_setBlue(this, value) == Ok([this EXCEPT !.blue_channel = <<value>>])

\* getters of the unit-float views
_getRedF(this) == DivF(IntToFloat(_getRed(this)), IntToFloat(255))

_getGreenF(this) == DivF(IntToFloat(_getGreen(this)), IntToFloat(255))

_getBlueF(this) == DivF(IntToFloat(_getBlue(this)), IntToFloat(255))

\* getters of the real-line views
_getRedReal(this) == _unitToReal(_getRedF(this))

_getGreenReal(this) == _unitToReal(_getGreenF(this))

_getBlueReal(this) == _unitToReal(_getBlueF(this))

\* getters of the gamma views
_getRedGamma(this) == _applyGamma(_getRedF(this))

_getGreenGamma(this) == _applyGamma(_getGreenF(this))

_getBlueGamma(this) == _applyGamma(_getBlueF(this))

\* r, g, b = self.redGamma, self.greenGamma, self.blueGamma: the first
\* exception of the three getters, else the three values
Triple(r, g, b) ==
  IF r.err # NoError THEN FailV(r.err)
  ELSE IF g.err # NoError THEN FailV(g.err)
  ELSE IF b.err # NoError THEN FailV(b.err)
  ELSE OkV(<<r.val, g.val, b.val>>)

GammaTriple(this) ==
  Triple(_getRedGamma(this), _getGreenGamma(this), _getBlueGamma(this))

\* a * r + b * g + c * b for the coefficients of a row of the XYZ matrix
Row(coef, rgb) ==
  MulF(coef[1], rgb[1]) + MulF(coef[2], rgb[2]) + MulF(coef[3], rgb[3])

\* the rows of the matrix of lines 249, 255 and 261, in millionths
XRow == <<412456, 357576, 180438>>

YRow == <<212673, 715152, 72175>>

ZRow == <<19334, 119192, 950304>>

\* return a * r + b * g + c * b, unless a getter raised
GetRow(coef, t) == IF t.err # NoError THEN t ELSE OkV(Row(coef, t.val))

_getX(this) == GetRow(XRow, GammaTriple(this))

_getY(this) == GetRow(YRow, GammaTriple(this))

_getZ(this) == GetRow(ZRow, GammaTriple(this))

\* a faulty variant of FloatToChannel: int(value * 255.0), without round
FloatToChannelTruncated(value) == MulF(value, IntToFloat(255)) \div Micro

\* int(round(value * 255.0))
FloatToChannel(value) == PyRound(MulF(value, IntToFloat(255)))

\* setters of the unit-float views
_setRedF(this, value) ==
  IF _validateUnitRange(value) # NoError
  THEN Fail(_validateUnitRange(value), this)
  ELSE Ok([this EXCEPT !.red_channel = <<FloatToChannel(value)>>])

_setGreenF(this, value) ==
  IF _validateUnitRange(value) # NoError
  THEN Fail(_validateUnitRange(value), this)
  ELSE Ok([this EXCEPT !.green_channel = <<FloatToChannel(value)>>])

_setBlueF(this, value) ==
  IF _validateUnitRange(value) # NoError
  THEN Fail(_validateUnitRange(value), this)
  ELSE Ok([this EXCEPT !.blue_channel = <<FloatToChannel(value)>>])

\* int(round(self._realToUnit(value) * 255.0))
RealToChannel(value) ==
  PyRoundFine(FineMulF(_realToUnit(value), IntToFloat(255)))

\* setters of the real-line views
_setRedReal(this, value) ==
  Ok([this EXCEPT !.red_channel = <<RealToChannel(value)>>])

_setGreenReal(this, value) ==
  Ok([this EXCEPT !.green_channel = <<RealToChannel(value)>>])

_setBlueReal(this, value) ==
  Ok([this EXCEPT !.blue_channel = <<RealToChannel(value)>>])

\* setters of the gamma views
_setRedGamma(this, value) ==
  WithValue(_unApplyGamma(value), this, LAMBDA u : _setRedF(this, u))

_setGreenGamma(this, value) ==
  WithValue(_unApplyGamma(value), this, LAMBDA u : _setGreenF(this, u))

_setBlueGamma(this, value) ==
  WithValue(_unApplyGamma(value), this, LAMBDA u : _setBlueF(this, u))

\* the body shared by _setX, _setY and _setZ: read the three gamma views,
\* then assign value / coefficient to redGamma, greenGamma and blueGamma in
\* turn; an exception leaves the assignments made before it in place
SetRow(this, coef, value) ==
  WithValue(GammaTriple(this), this, LAMBDA rgb :
    Then(Then(_setRedGamma(this, DivF(value, coef[1])),
              LAMBDA s : _setGreenGamma(s, DivF(value, coef[2]))),
         LAMBDA s : _setBlueGamma(s, DivF(value, coef[3]))))

_setX(this, value) == SetRow(this, XRow, value)

_setY(this, value) == SetRow(this, YRow, value)

_setZ(this, value) == SetRow(this, ZRow, value)

(***************************************************************************)
(* Attribute assignment.  The Field descriptors of lines 80-104 route      *)
(* `obj.name = value` to the method decorated @name.SET.                   *)
(***************************************************************************)
CallSetter(setter, this, value) ==
  CASE setter = "_setRed"        -> _setRed(this, value)
    [] setter = "_setGreen"      -> _setGreen(this, value)
    [] setter = "_setBlue"       -> _setBlue(this, value)
    [] setter = "_setRedF"       -> _setRedF(this, value)
    [] setter = "_setGreenF"     -> _setGreenF(this, value)
    [] setter = "_setBlueF"      -> _setBlueF(this, value)
    [] setter = "_setRedReal"    -> _setRedReal(this, value)
    [] setter = "_setGreenReal"  -> _setGreenReal(this, value)
    [] setter = "_setBlueReal"   -> _setBlueReal(this, value)
    [] setter = "_setRedGamma"   -> _setRedGamma(this, value)
    [] setter = "_setGreenGamma" -> _setGreenGamma(this, value)
    [] setter = "_setBlueGamma"  -> _setBlueGamma(this, value)
    [] setter = "_setX"          -> _setX(this, value)
    [] setter = "_setY"          -> _setY(this, value)
    [] setter = "_setZ"          -> _setZ(this, value)

FieldSetter ==
  [red |-> "_setRed", green |-> "_setGreen", blue |-> "_setBlue",
   redF |-> "_setRedF", greenF |-> "_setGreenF", blueF |-> "_setBlueF",
   redReal |-> "_setRedReal", greenReal |-> "_setGreenReal",
   blueReal |-> "_setBlueReal",
   redGamma |-> "_setRedGamma", greenGamma |-> "_setGreenGamma",
   blueGamma |-> "_setBlueGamma",
   X |-> "_setX", Y |-> "_setY", Z |-> "_setZ"]

__setattr__(this, name, value) == CallSetter(FieldSetter[name], this, value)

\* `obj.name` for the views X, Y and Z: the method decorated @name.GET
__getattr__(this, name) ==
  CASE name = "X" -> _getX(this)
    [] name = "Y" -> _getY(this)
    [] name = "Z" -> _getZ(this)

(***************************************************************************)
(* Constructors.  Each __init__ overload takes the new instance and        *)
(* returns it initialised, or the exception that leaves the constructor.   *)
(***************************************************************************)
\* @overload(int, int, int)
__init__Int3(this, args) ==
  IF _validateIntegerRange(args[1]) # NoError
  THEN Fail(_validateIntegerRange(args[1]), this)
  ELSE IF _validateIntegerRange(args[2]) # NoError
  THEN Fail(_validateIntegerRange(args[2]), this)
  ELSE IF _validateIntegerRange(args[3]) # NoError
  THEN Fail(_validateIntegerRange(args[3]), this)
  ELSE Ok([red_channel   |-> <<args[1]>>,
           green_channel |-> <<args[2]>>,
           blue_channel  |-> <<args[3]>>])

\* @overload(int)
__init__Int(this, monoChrome) ==
  __init__Int3(this, <<monoChrome, monoChrome, monoChrome>>)

\* @overload(THIS)
__init__This(this, that) ==
  __init__Int3(this, <<_getRed(that), _getGreen(that), _getBlue(that)>>)

\* PIL.ImageColor.colormap, four of its names
colormap ==
  [black |-> <<0, 0, 0>>, red |-> <<255, 0, 0>>, blue |-> <<0, 0, 255>>,
   white |-> <<255, 255, 255>>]

\* PIL.ImageColor.getcolor(color, 'RGB')
getcolor(color) ==
  IF color \in DOMAIN colormap THEN OkV(colormap[color])
  ELSE FailV("ValueError")

\* @overload(str): the resolved values are bound to a local and dropped
__init__Str(this, color) ==
  LET values == getcolor(color)
  IN  IF values.err # NoError THEN Fail(values.err, this) ELSE Ok(this)

\* the keyword names of lines 391-393, in the order they are tried
KEYS ==
  [red   |-> <<"red", "r", "redValue", "redComponent">>,
   green |-> <<"green", "g", "greenValue", "greenComponent">>,
   blue  |-> <<"blue", "b", "blueValue", "blueComponent">>]

defaultValues == [red |-> 255, green |-> 255, blue |-> 255]

\* the for/else of lines 399-404 for one channel name
KwargValue(kwargs, name) ==
  LET keys  == KEYS[name]
      found == {i \in 1..Len(keys) : keys[i] \in DOMAIN kwargs}
  IN  IF found = {} THEN defaultValues[name]
      ELSE kwargs[keys[CHOOSE i \in found : \A j \in found : i <= j]]

\* @overload() with keyword arguments
__init__Kwargs(this, kwargs) ==
  __init__Int3(this, <<KwargValue(kwargs, "red"), KwargValue(kwargs, "green"),
                       KwargValue(kwargs, "blue")>>)

\* Three floats match no overload of lines 355-389.  What worktoy's
\* dispatcher then does is not in this repository: it raises
\* DispatchException, or, when every float is a whole number, it may cast
\* each to int and run the (int, int, int) overload.  Both are outcomes.
__init__Float3(this, args) ==
  {Fail("DispatchException", this)} \cup
  (IF \A i \in 1..3 : args[i] % Micro = 0
   THEN {__init__Int3(this, <<args[1] \div Micro, args[2] \div Micro,
                              args[3] \div Micro>>)}
   ELSE {})

(***************************************************************************)
(* Item assignment.                                                        *)
(***************************************************************************)
\* __len__
__len__(this) == 3

\* _getSetMap with the real-domain keys bound to the unit-float setters
_getSetMapRealAsUnit ==
  [red |-> "_setRed", green |-> "_setGreen", blue |-> "_setBlue",
   redF |-> "_setRedF", greenF |-> "_setGreenF", blueF |-> "_setBlueF",
   redReal |-> "_setRedF", greenReal |-> "_setGreenF",
   blueReal |-> "_setBlueF"]

\* _getSetMap: the setters under their string keys and under 0, 1, 2
_getSetMap ==
  [red |-> "_setRed", green |-> "_setGreen", blue |-> "_setBlue",
   redF |-> "_setRedF", greenF |-> "_setGreenF", blueF |-> "_setBlueF",
   redReal |-> "_setRedReal", greenReal |-> "_setGreenReal",
   blueReal |-> "_setBlueReal"]

_getSetMapInt == <<"_setRed", "_setGreen", "_setBlue">>

\* @overload(int, int) __setitem__: index > 2 raises before the try; inside
\* it the `return None` of the finally clause discards any exception
RECURSIVE __setitem__Int(_, _, _)
__setitem__Int(this, index, value) ==
  IF index > 2 THEN Fail("IndexError", this)
  ELSE IF index < 0 THEN __setitem__Int(this, __len__(this) + index, value)
  ELSE Ok(CallSetter(_getSetMapInt[index + 1], this, value).self)

\* @overload(str, int) and @overload(str, float) __setitem__: the KeyError
\* and any exception of the setter are discarded by the finally clause
__setitem__Str(this, key, value) ==
  IF key \notin DOMAIN _getSetMap THEN Ok(this)
  ELSE Ok(CallSetter(_getSetMap[key], this, value).self)

(***************************************************************************)
(* Item access.                                                            *)
(***************************************************************************)
\* _getGetMap: the getters under their string keys and under 0, 1, 2
_getGetMap ==
  [red |-> "_getRed", green |-> "_getGreen", blue |-> "_getBlue",
   redF |-> "_getRedF", greenF |-> "_getGreenF", blueF |-> "_getBlueF",
   redReal |-> "_getRedReal", greenReal |-> "_getGreenReal",
   blueReal |-> "_getBlueReal"]

_getGetMapInt == <<"_getRed", "_getGreen", "_getBlue">>

\* data[key](): the call of a bound getter
CallGetter(getter, this) ==
  CASE getter = "_getRed"       -> OkV(_getRed(this))
    [] getter = "_getGreen"     -> OkV(_getGreen(this))
    [] getter = "_getBlue"      -> OkV(_getBlue(this))
    [] getter = "_getRedF"      -> OkV(_getRedF(this))
    [] getter = "_getGreenF"    -> OkV(_getGreenF(this))
    [] getter = "_getBlueF"     -> OkV(_getBlueF(this))
    [] getter = "_getRedReal"   -> _getRedReal(this)
    [] getter = "_getGreenReal" -> _getGreenReal(this)
    [] getter = "_getBlueReal"  -> _getBlueReal(this)

\* @overload(int) __getitem__: index > 2 raises, a negative index is looked
\* up again after len(self) is added to it
RECURSIVE __getitem__Int(_, _)
__getitem__Int(this, index) ==
  IF index > 2 THEN FailV("IndexError")
  ELSE IF index < 0 THEN __getitem__Int(this, __len__(this) + index)
  ELSE CallGetter(_getGetMapInt[index + 1], this)

\* @overload(str) __getitem__
__getitem__Str(this, key) ==
  IF key \notin DOMAIN _getGetMap THEN FailV("KeyError")
  ELSE CallGetter(_getGetMap[key], this)

(***************************************************************************)
(* Equality.  An operand is a colour, a tuple of ints or a bare int.       *)
(***************************************************************************)
Colour(obj) == [kind |-> "colour", obj |-> obj]

NotImplemented == [kind |-> "NotImplemented"]

\* cls(*args) for positional ints: the overloads (int, int, int) and (int)
Construct(args) ==
  IF Len(args) = 3 THEN __init__Int3(NewObject, args)
  ELSE IF Len(args) = 1 THEN __init__Int(NewObject, args[1])
  ELSE Fail("DispatchException", NewObject)

\* the try of _resolveOther around out = cls(*args)
Resolved(out) ==
  IF out.err = "DispatchException" THEN OkV(NotImplemented)
  ELSE IF out.err # NoError THEN FailV(out.err)
  ELSE OkV(Colour(out.self))

\* _resolveOther: a colour is returned as it is, a tuple is unpacked into the
\* constructor, anything else is unpacked with * and an int is not iterable
_resolveOther(this, operand) ==
  IF operand.kind = "colour" THEN OkV(operand)
  ELSE IF operand.kind = "tuple"
  THEN Resolved(Construct(operand.items))
  ELSE FailV("TypeError")

\* a faulty variant of Equal: `if self.red > other.red` in place of the
\* squared difference, for each channel
EqualOneSided(this, that) ==
  /\ ~(_getRed(this) > _getRed(that))
  /\ ~(_getGreen(this) > _getGreen(that))
  /\ ~(_getBlue(this) > _getBlue(that))

\* a faulty variant of Equal: `self.red - other.red ** 2` without the
\* parentheses, for each channel
EqualUnparenthesised(this, that) ==
  IF _getRed(this) - _getRed(that) * _getRed(that) # 0
  THEN FALSE
  ELSE IF _getGreen(this) - _getGreen(that) * _getGreen(that) # 0
  THEN FALSE
  ELSE IF _getBlue(this) - _getBlue(that) * _getBlue(that) # 0
  THEN FALSE
  ELSE TRUE

\* the comparisons of __eq__ on a resolved operand, lines 612-619
Equal(this, that) ==
  IF (_getRed(this) - _getRed(that)) * (_getRed(this) - _getRed(that)) # 0
  THEN FALSE
  ELSE IF (_getGreen(this) - _getGreen(that)) *
          (_getGreen(this) - _getGreen(that)) # 0
  THEN FALSE
  ELSE IF (_getBlue(this) - _getBlue(that)) *
          (_getBlue(this) - _getBlue(that)) # 0
  THEN FALSE
  ELSE TRUE

\* __eq__ once _resolveOther has returned or raised
EqResolved(this, that) ==
  IF that.err # NoError THEN that
  ELSE IF that.val.kind = "NotImplemented" THEN OkV(FALSE)
  ELSE OkV(Equal(this, that.val.obj))

\* __eq__
__eq__(this, operand) == EqResolved(this, _resolveOther(this, operand))

(***************************************************************************)
(* Inputs.  Component is the helper class of the tests: a channel value    *)
(* with its unit-float and real-line views.                                *)
(***************************************************************************)
\* Component._getUnitF
unitF(value) == DivF(IntToFloat(value), IntToFloat(255))

\* Component._getRealF
realF(value) == _unitToReal(unitF(value)).val

\* (self.red, self.green, self.blue)
Channels(this) == <<_getRed(this), _getGreen(this), _getBlue(this)>>

\* RougeVertBleu(): no arguments and no keywords
EmptyKwargs == [k \in {} |-> 0]

White == __init__Kwargs(NewObject, EmptyKwargs).self

\* RougeVertBleu(r, g, b) for channels in range
RougeVertBleu(r, g, b) == __init__Int3(NewObject, <<r, g, b>>).self

Call(name, on, key, args) == [name |-> name, on |-> on, key |-> key, args |-> args]

\* what a call left behind: its value when it returned
Outcome(result) == IF result.err = NoError THEN <<result.val>> ELSE <<>>

\* the largest integer that is tried as a channel
TooBig == 300

IntInputs == {-1, 0, 127, 255, TooBig}

UnitInputs == {-100000, 0, unitF(127), Micro, 1500000}

RealInputs == {realF(0), realF(127), realF(255), IntToFloat(20)}

GammaInputs == {-100000, 0, _applyGamma(unitF(127)).val, Micro, 1500000}

XYZInputs == {-100000, 0, 10000, 50000, 100000, 150000, 200000, 400000}

ChannelNames == {"red", "green", "blue"}

UnitNames == {"redF", "greenF", "blueF"}

RealNames == {"redReal", "greenReal", "blueReal"}

GammaNames == {"redGamma", "greenGamma", "blueGamma"}

XYZNames == {"X", "Y", "Z"}

IndexInputs == {-4, -3, -1, 0, 1, 2, 3}

KeyInputs ==
  {"red", "green", "blue", "redF", "greenF", "blueF",
   "redReal", "greenReal", "blueReal", "redGamma"}

\* the indexes and keys of item access
GetIndexInputs == {-6, -4, -3, -2, -1, 0, 1, 2, 3, 5}

GetKeyInputs == {"red", "green", "blue", "redF", "redGamma"}

\* the values a test assigns under a name
InputsOf(name) ==
  IF name \in ChannelNames THEN IntInputs
  ELSE IF name \in UnitNames THEN UnitInputs
  ELSE IF name \in RealNames THEN RealInputs
  ELSE GammaInputs

(***************************************************************************)
(* Spec: one colour under any sequence of assignments.                     *)
(***************************************************************************)
Init ==
  /\ self = White
  /\ other = White
  /\ err = NoError
  /\ op = Call("init", "self", "", <<>>)
  /\ test = <<>>

\* self.<name> = value
Assign(name, value) ==
  /\ self' = __setattr__(self, name, value).self
  /\ err' = __setattr__(self, name, value).err
  /\ op' = Call("setattr", "self", name, <<value>>)
  /\ UNCHANGED <<other, test>>

\* self[index] = value
SetItemInt(index, value) ==
  /\ self' = __setitem__Int(self, index, value).self
  /\ err' = __setitem__Int(self, index, value).err
  /\ op' = Call("setitem", "self", "", <<index, value>>)
  /\ UNCHANGED <<other, test>>

\* self[key] = value
SetItemStr(key, value) ==
  /\ self' = __setitem__Str(self, key, value).self
  /\ err' = __setitem__Str(self, key, value).err
  /\ op' = Call("setitem", "self", key, <<value>>)
  /\ UNCHANGED <<other, test>>

\* RougeVertBleu._unitToReal(value)
CallUnitToReal(value) ==
  /\ err' = _unitToReal(value).err
  /\ op' = Call("_unitToReal", "self", "", <<value>>)
  /\ UNCHANGED <<self, other, test>>

\* self[index] or self[key], with the outcome `out`
GetItem(key, index, out) ==
  /\ err' = out.err
  /\ op' = Call("getitem", "self", key, <<index>> \o Outcome(out))
  /\ UNCHANGED <<self, other, test>>

\* self[index]
GetItemInt(index) == GetItem("", index, __getitem__Int(self, index))

\* self[key]
GetItemStr(key) == GetItem(key, 0, __getitem__Str(self, key))

Next ==
  \/ \E name \in ChannelNames, value \in IntInputs : Assign(name, value)
  \/ \E name \in UnitNames, value \in UnitInputs : Assign(name, value)
  \/ \E name \in RealNames, value \in RealInputs : Assign(name, value)
  \/ \E name \in GammaNames, value \in GammaInputs : Assign(name, value)
  \/ \E index \in IndexInputs, value \in IntInputs : SetItemInt(index, value)
  \/ \E key \in KeyInputs : \E value \in InputsOf(key) : SetItemStr(key, value)
  \/ \E value \in UnitInputs : CallUnitToReal(value)
  \/ \E index \in GetIndexInputs : GetItemInt(index)
  \/ \E key \in GetKeyInputs : GetItemStr(key)

Spec == Init /\ [][Next]_vars

(***************************************************************************)
(* Properties of Spec.                                                     *)
(***************************************************************************)
\* the three private variables of a colour
Stored(this) == <<this.red_channel, this.green_channel, this.blue_channel>>

\* C1: in every state reached by assignments to a constructed colour, each
\* stored channel is an integer of 0..255 (or still unset); an assignment of
\* a value outside 0..255 is not stored.
C1_ChannelsInRange ==
  \A i \in 1..3 : Stored(self)[i] = None \/ Stored(self)[i][1] \in 0..255

\* an assignment, by attribute, of a value outside [0, 1] to a unit-float
\* view or a gamma view, or a call of _unitToReal on such a value
OutsideUnit(call) ==
  \/ /\ call.name = "setattr"
     /\ call.key \in UnitNames \cup GammaNames
     /\ (call.args[1] < 0 \/ call.args[1] > Micro)
  \/ /\ call.name = "_unitToReal"
     /\ (call.args[1] < 0 \/ call.args[1] > Micro)

ChannelIndex == [red |-> 1, green |-> 2, blue |-> 3]

Samples == {White, RougeVertBleu(0, 0, 0), RougeVertBleu(12, 200, 77)}

BaseInputs == {0, 127, 255}

\* three components that between them take every value of 0..255 on every
\* channel
Components(c) == <<c, 255 - c, (c + 128) % 256>>

Tests ==
  {[kind |-> "base", values |-> <<r, g, b>>, todo |-> ChannelNames] :
     r \in BaseInputs, g \in BaseInputs, b \in BaseInputs}
  \cup {[kind |-> k, values |-> Components(c), todo |-> ChannelNames] :
          k \in {"float", "real"}, c \in 0..255}
  \cup {[kind |-> "xyz", values |-> <<v, v, v>>, todo |-> {n}] :
          n \in XYZNames, v \in XYZInputs}

InitTest ==
  /\ self \in Samples
  /\ test \in Tests
  /\ other = IF test.kind = "xyz" THEN __init__This(NewObject, self).self
             ELSE RougeVertBleu(test.values[1], test.values[2], test.values[3])
  /\ err = NoError
  /\ op = Call("setUp", "self", "", <<>>)

\* one assignment of a test: sample.<attr> = value, for the component name
TestAssign(name, attr, value) ==
  /\ err = NoError
  /\ name \in test.todo
  /\ self' = __setattr__(self, attr, value).self
  /\ err' = __setattr__(self, attr, value).err
  /\ op' = Call("setattr", "self", attr, <<value>>)
  /\ test' = [test EXCEPT !.todo = @ \ {name}]
  /\ UNCHANGED other

\* test_set_base: sample.red = newRed.value, ...
SetBase(name) ==
  /\ test.kind = "base"
  /\ TestAssign(name, name, test.values[ChannelIndex[name]])

FName == [red |-> "redF", green |-> "greenF", blue |-> "blueF"]

\* test_set_virtual_float: sample.redF = newRed.unitF, ...
SetVirtualFloat(name) ==
  /\ test.kind = "float"
  /\ TestAssign(name, FName[name], unitF(test.values[ChannelIndex[name]]))

RealName == [red |-> "redReal", green |-> "greenReal", blue |-> "blueReal"]

\* test_set_virtual_real: sample.redReal = newRed.realF, ...
SetVirtualReal(name) ==
  /\ test.kind = "real"
  /\ TestAssign(name, RealName[name], realF(test.values[ChannelIndex[name]]))

\* sample.X = v, sample.Y = v or sample.Z = v
SetXYZ(name) ==
  /\ test.kind = "xyz"
  /\ TestAssign(name, name, test.values[1])

NextTest ==
  \/ \E name \in ChannelNames : SetBase(name)
  \/ \E name \in ChannelNames : SetVirtualFloat(name)
  \/ \E name \in ChannelNames : SetVirtualReal(name)
  \/ \E name \in XYZNames : SetXYZ(name)

SpecTest == InitTest /\ [][NextTest]_vars

(***************************************************************************)
(* Properties of SpecTest.                                                 *)
(***************************************************************************)
\* self == other and other == self both return True
EqualBothWays(this, that) ==
  /\ __eq__(this, Colour(that)) = OkV(TRUE)
  /\ __eq__(that, Colour(this)) = OkV(TRUE)

\* the channels of `names` hold the components of the test
Holds(this, names) ==
  \A name \in names : Channels(this)[ChannelIndex[name]] = test.values[ChannelIndex[name]]

\* C4: each of red = r, green = g, blue = b, in any order, stores its value
\* in its own channel and leaves the other two stored channels as they were;
\* after the three, the colour equals RougeVertBleu(r, g, b).
C4_SetBase ==
  [][\A name \in ChannelNames :
       SetBase(name) =>
         /\ err' = NoError
         /\ Stored(self')[ChannelIndex[name]] = <<test.values[ChannelIndex[name]]>>
         /\ \A i \in 1..3 : i # ChannelIndex[name] => Stored(self')[i] = Stored(self)[i]
         /\ test'.todo = {} => EqualBothWays(self', other)]_vars

\* C4 happens: the three assignments were made on a sample with other channels
C4_Witness ==
  /\ test.kind = "base"
  /\ test.todo = {}
  /\ test.values = <<0, 127, 255>>
  /\ op.name = "setattr"
  /\ Channels(self) = <<0, 127, 255>>
  /\ EqualBothWays(self, other)

\* C5: for every c of 0..255, assigning c / 255 to the unit-float view of a
\* channel stores exactly c in it; RougeVertBleu built from c reads back c;
\* after the three assignments the two colours are equal.
C5_FloatRoundTrip ==
  test.kind = "float" =>
    /\ err = NoError
    /\ Holds(self, ChannelNames \ test.todo)
    /\ Channels(other) = test.values
    /\ test.todo = {} => EqualBothWays(self, other)

\* C5 happens: redF, greenF and blueF were assigned 127/255, 128/255, 255/255
C5_Witness ==
  /\ test.kind = "float"
  /\ test.todo = {}
  /\ test.values = <<127, 128, 255>>
  /\ op.name = "setattr"
  /\ op.key \in UnitNames
  /\ Channels(self) = <<127, 128, 255>>

\* C6: for every c of 0..255, the extremes 0 and 255 included, assigning
\* _unitToReal(c / 255) to the real-line view of a channel stores exactly c
\* in it.
C6_RealRoundTrip ==
  test.kind = "real" =>
    /\ err = NoError
    /\ Holds(self, ChannelNames \ test.todo)
    /\ test.todo = {} => EqualBothWays(self, other)

\* C6 happens: redReal, greenReal and blueReal were assigned the real-line
\* values of 0, 255 and 128, on a sample that held neither
C6_Witness ==
  /\ test.kind = "real"
  /\ test.todo = {}
  /\ test.values = <<0, 255, 128>>
  /\ op.name = "setattr"
  /\ op.key \in RealNames
  /\ Channels(self) = <<0, 255, 128>>

\* the tolerance of the tests' assertAlmostEqual: one decimal place
Tolerance == Micro \div 20

\* C7: after X, Y or Z was assigned a value without an exception, reading
\* the same view back gives the value within tolerance.
C7_XYZRoundTrip ==
  (test.kind = "xyz" /\ test.todo = {} /\ err = NoError) =>
    /\ __getattr__(self, op.key).err = NoError
    /\ Abs(__getattr__(self, op.key).val - op.args[1]) <= Tolerance

(***************************************************************************)
(* SpecCtor: the constructor tests.  `test` holds three integers; `self`   *)
(* is constructed from them through one overload after the other, and      *)
(* `other` is the copy RougeVertBleu(self).  A constructor that raises     *)
(* binds no new colour.                                                    *)
(***************************************************************************)
InitCtor ==
  /\ self = White
  /\ other = White
  /\ err = NoError
  /\ op = Call("new", "self", "kwargs", <<255, 255, 255>>)
  /\ test \in {<<r, g, b>> : r \in IntInputs, g \in IntInputs, b \in IntInputs}

\* <on> = RougeVertBleu(...) by the overload `form`, with outcome `out`;
\* `values` are the channel values that the arguments stand for
New(on, form, values, out) ==
  /\ self' = IF on = "self" /\ out.err = NoError THEN out.self ELSE self
  /\ other' = IF on = "other" /\ out.err = NoError THEN out.self ELSE other
  /\ err' = out.err
  /\ op' = Call("new", on, form, values)
  /\ UNCHANGED test

\* threeIntsRGB = RougeVertBleu(*threeInts)
NewThreeInts == New("self", "threeInts", test, __init__Int3(NewObject, test))

\* oneIntRGB = RougeVertBleu(*oneInt)
NewOneInt ==
  New("self", "oneInt", <<test[1], test[1], test[1]>>,
      __init__Int(NewObject, test[1]))

\* the keyword arguments of a call: the names of the tests, the short
\* names, and red alone
KwargForms ==
  {[red |-> test[1], green |-> test[2], blue |-> test[3]],
   [r |-> test[1], g |-> test[2], b |-> test[3]],
   [red |-> test[1]]}

\* kwargsRGB = RougeVertBleu(**kwargs)
NewKwargs(kwargs) ==
  New("self", "kwargs",
      <<KwargValue(kwargs, "red"), KwargValue(kwargs, "green"),
        KwargValue(kwargs, "blue")>>,
      __init__Kwargs(NewObject, kwargs))

\* thisRGB = RougeVertBleu(self): a copy of the colour constructed last
NewThis == New("other", "this", Channels(self), __init__This(NewObject, self))

\* RougeVertBleu(r / 255, g / 255, b / 255): the unit floats of the channels
NewFloats ==
  \E out \in __init__Float3(NewObject,
                            <<unitF(test[1]), unitF(test[2]), unitF(test[3])>>) :
    New("self", "floats", test, out)

\* RougeVertBleu(color) for a colour name
NewStr(color) == New("self", "str", <<color>>, __init__Str(NewObject, color))

\* self == other, other == self and self == self
TestEq ==
  /\ op' = Call("__eq__", "self", "",
                <<__eq__(self, Colour(other)).val, __eq__(other, Colour(self)).val,
                  __eq__(self, Colour(self)).val>>)
  /\ err' = __eq__(self, Colour(other)).err
  /\ UNCHANGED <<self, other, test>>

ColorNames == DOMAIN colormap \cup {"nocolour"}

NextCtor ==
  \/ NewThreeInts
  \/ NewOneInt
  \/ \E kwargs \in KwargForms : NewKwargs(kwargs)
  \/ NewThis
  \/ NewFloats
  \/ \E color \in ColorNames : NewStr(color)
  \/ TestEq

SpecCtor == InitCtor /\ [][NextCtor]_vars

(***************************************************************************)
(* Properties of SpecCtor.                                                 *)
(***************************************************************************)
\* the colour that the last constructor call was to bind
Target == IF op.on = "self" THEN self ELSE other

IntegerForms == {"threeInts", "oneInt", "kwargs", "this"}

\* C2: a constructor that takes integers (three, one, keywords or a copy)
\* and is given a channel outside 0..255 raises IntegerDomainException and
\* nothing else.
C2_IntegerDomainException ==
  (/\ op.name = "new"
   /\ op.key \in IntegerForms
   /\ \E i \in 1..3 : op.args[i] \notin 0..255) => err = "IntegerDomainException"

\* C8: a colour constructed from channel values of 0..255 through any form
\* (three integers, one integer, keywords, a copy, the unit floats) stores
\* those values and equals, in both directions, the colour that the three
\* integers construct.
C8_FormsAgree ==
  (/\ op.name = "new"
   /\ op.key \in IntegerForms \cup {"floats"}
   /\ \A i \in 1..3 : op.args[i] \in 0..255) =>
     /\ err = NoError
     /\ Channels(Target) = op.args
     /\ EqualBothWays(Target, RougeVertBleu(op.args[1], op.args[2], op.args[3]))

\* C9: a colour constructed from a colour name stores the channels that the
\* name table gives for the name.
C9_NamedColour ==
  (op.name = "new" /\ op.key = "str" /\ op.args[1] \in DOMAIN colormap) =>
    /\ err = NoError
    /\ Channels(self) = colormap[op.args[1]]

\* C10: c == c is True, and c == d has the truth value of d == c, for the
\* colours c and d of every comparison.
C10_EqReflexiveSymmetric ==
  op.name = "__eq__" =>
    /\ err = NoError
    /\ op.args[1] = op.args[2]
    /\ op.args[3] = TRUE

\* C10 happens: two colours that differ were compared in both directions
C10_Witness ==
  /\ op.name = "__eq__"
  /\ op.args = <<FALSE, FALSE, TRUE>>
  /\ Channels(self) = <<0, 127, 255>>
  /\ Channels(other) = <<0, 0, 0>>

(***************************************************************************)
(* Hashing.  hash of a tuple of ints is CPython's: each int hashes to      *)
(* itself (-1 is kept for errors and hashes to -2), and the hash of the    *)
(* tuple is computed from the hashes of its elements, in order, and from   *)
(* nothing else.  The model keeps those element hashes in order.           *)
(***************************************************************************)
PyHashInt(n) == IF n = -1 THEN -2 ELSE n

PyHashTuple(items) == [i \in DOMAIN items |-> PyHashInt(items[i])]

\* __hash__
__hash__(this) == PyHashTuple(<<_getRed(this), _getGreen(this), _getBlue(this)>>)

(***************************************************************************)
(* SpecEq: self is changed by assignments, other is constructed, and the   *)
(* two are compared and hashed; self is also compared with operands that   *)
(* are not colours.                                                        *)
(***************************************************************************)
\* channel values: the squared differences are 1, 9 and 16
EqInputs == {0, 1, 4}

\* right operands that are tuples: a colour, two with the wrong number of
\* components, one with a component above 255
TupleOperands == {<<0, 1, 4>>, <<1, 4>>, <<0, 1, 4, 0>>, <<TooBig, 0, 0>>}

\* right operands that are bare numbers
NumberOperands == {5}

InitEq ==
  /\ self = White
  /\ other = White
  /\ err = NoError
  /\ op = Call("new", "other", "kwargs", <<>>)
  /\ test = <<>>

\* self.<name> = value
EqSetWith(name, value, out) ==
  /\ self' = out.self
  /\ err' = out.err
  /\ op' = Call("set", "self", name, <<value>>)
  /\ UNCHANGED <<other, test>>

\* self.red = v, self.green = v, self.blue = v
EqSet(name, value) == EqSetWith(name, value, __setattr__(self, name, value))

\* self.redF = v / 255, ...
EqSetF(name, value) ==
  EqSetWith(name, value, __setattr__(self, name, unitF(value)))

\* other = RougeVertBleu(...)
EqNewWith(form, args, out) ==
  /\ other' = IF out.err = NoError THEN out.self ELSE other
  /\ err' = out.err
  /\ op' = Call("new", "other", form, args)
  /\ UNCHANGED <<self, test>>

\* other = RougeVertBleu(r, g, b)
EqNewThreeInts(args) == EqNewWith("threeInts", args, __init__Int3(NewObject, args))

\* other = RougeVertBleu(v)
EqNewOneInt(v) == EqNewWith("oneInt", <<v>>, __init__Int(NewObject, v))

\* other = RougeVertBleu(self)
EqNewThis == EqNewWith("this", <<>>, __init__This(NewObject, self))

\* other = RougeVertBleu(red=r, green=g, blue=b)
EqNewKwargs(args) ==
  EqNewWith("kwargs", args,
            __init__Kwargs(NewObject,
                           [red |-> args[1], green |-> args[2], blue |-> args[3]]))

\* self == other and other == self
Compare ==
  /\ op' = Call("__eq__", "self", "colour",
                Outcome(__eq__(self, Colour(other))) \o
                Outcome(__eq__(other, Colour(self))))
  /\ err' = __eq__(self, Colour(other)).err
  /\ UNCHANGED <<self, other, test>>

\* self == operand for an operand that is not a colour
CompareWith(kind, operand, result) ==
  /\ op' = Call("__eq__", "self", kind, <<operand>> \o Outcome(result))
  /\ err' = result.err
  /\ UNCHANGED <<self, other, test>>

\* self == (a, b, ...)
CompareTuple(items) ==
  CompareWith("tuple", items, __eq__(self, [kind |-> "tuple", items |-> items]))

\* self == 5
CompareNumber(n) ==
  CompareWith("number", n, __eq__(self, [kind |-> "number", value |-> n]))

\* hash(self) and hash(other)
Hash ==
  /\ op' = Call("__hash__", "self", "", <<__hash__(self), __hash__(other)>>)
  /\ err' = NoError
  /\ UNCHANGED <<self, other, test>>

EqTriples == {<<r, g, b>> : r \in EqInputs, g \in EqInputs, b \in EqInputs}

NextEq ==
  \/ \E name \in ChannelNames, value \in EqInputs : EqSet(name, value)
  \/ \E name \in UnitNames, value \in EqInputs : EqSetF(name, value)
  \/ \E args \in EqTriples : EqNewThreeInts(args)
  \/ \E v \in EqInputs : EqNewOneInt(v)
  \/ EqNewThis
  \/ \E args \in EqTriples : EqNewKwargs(args)
  \/ Compare
  \/ \E items \in TupleOperands : CompareTuple(items)
  \/ \E n \in NumberOperands : CompareNumber(n)
  \/ Hash

SpecEq == InitEq /\ [][NextEq]_vars

(***************************************************************************)
(* Properties of SpecEq.                                                   *)
(***************************************************************************)
\* the sum of the squared differences of the channels
SquaredDistance(this, that) ==
  (_getRed(this) - _getRed(that)) * (_getRed(this) - _getRed(that)) +
  (_getGreen(this) - _getGreen(that)) * (_getGreen(this) - _getGreen(that)) +
  (_getBlue(this) - _getBlue(that)) * (_getBlue(this) - _getBlue(that))

\* C11: two colours compare equal exactly when the sum of the squared
\* differences of their channels is below 16: equal for a sum of 0, equal
\* for a sum of 1 to 15, unequal from 16 on.
C11_AlmostEqual ==
  (op.name = "__eq__" /\ op.key = "colour") =>
    /\ err = NoError
    /\ op.args = <<SquaredDistance(self, other) < 16,
                   SquaredDistance(other, self) < 16>>

\* C12: two colours with equal stored channels compare equal in both
\* directions and have equal hashes, whichever assignments and constructor
\* produced them.
C12_EqualChannelsEqualHash ==
  Stored(self) = Stored(other) =>
    /\ op.name = "__eq__" /\ op.key = "colour" => op.args = <<TRUE, TRUE>>
    /\ op.name = "__hash__" => op.args[1] = op.args[2]
    /\ __hash__(self) = __hash__(other)

\* C12 happens: self took its channels from assignments, other from a
\* constructor, and the two were compared
C12_Witness ==
  /\ Channels(self) = <<4, 1, 0>>
  /\ Channels(other) = <<4, 1, 0>>
  /\ op.name = "__eq__"
  /\ op.key = "colour"
  /\ op.args = <<TRUE, TRUE>>

\* the operand of the last comparison cannot be converted into a colour: a
\* bare number, a tuple that has neither one nor three components, or a tuple
\* with a component outside 0..255
Unconvertible ==
  /\ op.name = "__eq__"
  /\ \/ op.key = "number"
     \/ /\ op.key = "tuple"
        /\ \/ Len(op.args[1]) \notin {1, 3}
           \/ \E i \in 1..Len(op.args[1]) : op.args[1][i] \notin 0..255

\* C13: self == operand, for an operand that cannot be converted into a
\* colour, returns False and no exception leaves the comparison.
C13_ResolutionFailure ==
  Unconvertible => err = NoError /\ op.args[2] = FALSE

(***************************************************************************)
(* Item access in Spec.                                                    *)
(***************************************************************************)
\* C20: self[i] is red, green, blue for i = 0, 1, 2 and for i = -3, -2, -1,
\* and raises IndexError for every other integer; self['red'],
\* self['green'], self['blue'] are the same channels.
C20_GetItem ==
  op.name = "getitem" =>
    IF op.key \in ChannelNames
    THEN /\ err = NoError
         /\ op.args[2] = [red |-> _getRed(self), green |-> _getGreen(self),
                          blue |-> _getBlue(self)][op.key]
    ELSE IF op.key # "" THEN TRUE
    ELSE IF op.args[1] \in 0..2
    THEN err = NoError /\ op.args[2] = Channels(self)[op.args[1] + 1]
    ELSE IF op.args[1] \in -3..-1
    THEN err = NoError /\ op.args[2] = Channels(self)[op.args[1] + 4]
    ELSE err = "IndexError"

(***************************************************************************)
(* HSV (src/src/farvelade/_hsv.py): a RougeVertBleu with the views hue,    *)
(* saturation and value, all computed from the stored channels.            *)
(***************************************************************************)
\* max(a, b, c) and min(a, b, c)
Max3(a, b, c) == IF a >= b /\ a >= c THEN a ELSE IF b >= c THEN b ELSE c

Min3(a, b, c) == IF a <= b /\ a <= c THEN a ELSE IF b <= c THEN b ELSE c

\* a faulty variant of _getValue: min in place of max
_getValueMin(this) == Min3(_getRedF(this), _getGreenF(this), _getBlueF(this))

\* @valueF.GET
_getValue(this) == Max3(_getRedF(this), _getGreenF(this), _getBlueF(this))

\* a faulty variant of HueOf: the first branch without `% 6`
HueOfNoModulo(r, g, b, maxC, delta) ==
  IF FineLess(Fine(delta), epsilon) THEN 0
  ELSE IF maxC = r THEN DivF(DivF(g - b, delta), IntToFloat(6))
  ELSE IF maxC = g
  THEN DivF(DivF(b - r, delta) + IntToFloat(2), IntToFloat(6))
  ELSE DivF(DivF(r - g, delta) + IntToFloat(4), IntToFloat(6))

\* lines 67-75 of _getHue: float % 6 has the sign of 6
HueOf(r, g, b, maxC, delta) ==
  IF FineLess(Fine(delta), epsilon) THEN 0
  ELSE IF maxC = r
  THEN DivF(DivF(g - b, delta) % IntToFloat(6), IntToFloat(6))
  ELSE IF maxC = g
  THEN DivF(DivF(b - r, delta) + IntToFloat(2), IntToFloat(6))
  ELSE DivF(DivF(r - g, delta) + IntToFloat(4), IntToFloat(6))

\* lines 63-66 of _getHue
HueWith(r, g, b, maxC) == HueOf(r, g, b, maxC, maxC - Min3(r, g, b))

\* @hueF.GET
_getHue(this) ==
  HueWith(_getRedF(this), _getGreenF(this), _getBlueF(this), _getValue(this))

\* lines 83-87 of _getSaturation
SaturationOf(maxC, delta) ==
  IF FineLess(Fine(maxC), epsilon) THEN 0
  ELSE IF FineLess(Fine(delta), epsilon) THEN 0
  ELSE DivF(delta, maxC)

\* @saturationF.GET
_getSaturation(this) ==
  SaturationOf(_getValue(this),
               _getValue(this) -
                 Min3(_getRedF(this), _getGreenF(this), _getBlueF(this)))

\* @hue.GET, @saturation.GET, @value.GET: int(round(view * 255))
_getHueInt(this) == PyRound(MulF(_getHue(this), IntToFloat(255)))

_getSaturationInt(this) == PyRound(MulF(_getSaturation(this), IntToFloat(255)))

_getValueInt(this) == PyRound(MulF(_getValue(this), IntToFloat(255)))

\* the Field descriptors of lines 36-49, read
HSVGetter(this, name) ==
  CASE name = "hueF"        -> _getHue(this)
    [] name = "saturationF" -> _getSaturation(this)
    [] name = "valueF"      -> _getValue(this)
    [] name = "hue"         -> _getHueInt(this)
    [] name = "saturation"  -> _getSaturationInt(this)
    [] name = "value"       -> _getValueInt(this)

(***************************************************************************)
(* SpecHSV: HSV colours are constructed from three ints and their views    *)
(* are read.                                                               *)
(***************************************************************************)
HSVInputs == {0, 1, 127, 128, 255}

HSVNames == {"hueF", "saturationF", "valueF", "hue", "saturation", "value"}

InitHSV ==
  /\ self = White
  /\ other = White
  /\ err = NoError
  /\ op = Call("new", "self", "kwargs", <<>>)
  /\ test = <<>>

\* self = HSV(r, g, b)
HSVNew(args) ==
  /\ self' = __init__Int3(NewObject, args).self
  /\ err' = __init__Int3(NewObject, args).err
  /\ op' = Call("new", "self", "threeInts", args)
  /\ UNCHANGED <<other, test>>

\* self.<name> for a view of HSV
HSVGet(name) ==
  /\ op' = Call("get", "self", name, <<HSVGetter(self, name)>>)
  /\ err' = NoError
  /\ UNCHANGED <<self, other, test>>

NextHSV ==
  \/ \E r \in HSVInputs, g \in HSVInputs, b \in HSVInputs : HSVNew(<<r, g, b>>)
  \/ \E name \in HSVNames : HSVGet(name)

SpecHSV == InitHSV /\ [][NextHSV]_vars

(***************************************************************************)
(* Properties of SpecHSV.                                                  *)
(***************************************************************************)
\* the largest and the smallest of the unit floats of the stored channels
MaxUnit(this) == unitF(Max3(_getRed(this), _getGreen(this), _getBlue(this)))

MinUnit(this) == unitF(Min3(_getRed(this), _getGreen(this), _getBlue(this)))

\* the saturation of the reference formula: 0 when the value or the spread
\* of the channels is below epsilon, else the spread over the value
ReferenceSaturation(maxC, minC) ==
  IF maxC <= 0 \/ maxC - minC <= 0 THEN 0 ELSE DivF(maxC - minC, maxC)

\* C18: the value is the largest unit-float channel and the saturation is
\* that of the reference formula; black has saturation 0 and value 0, pure
\* red has hue 0, saturation 1 and value 1, white has saturation 0 and
\* value 1.
C18_ReferenceHSV ==
  op.name = "get" =>
    /\ op.key = "valueF" => op.args[1] = MaxUnit(self)
    /\ op.key = "saturationF" =>
         op.args[1] = ReferenceSaturation(MaxUnit(self), MinUnit(self))
    /\ Channels(self) = <<0, 0, 0>> =>
         /\ op.key = "saturationF" => op.args[1] = 0
         /\ op.key = "valueF" => op.args[1] = 0
    /\ Channels(self) = <<255, 0, 0>> =>
         /\ op.key = "hueF" => op.args[1] = 0
         /\ op.key = "saturationF" => op.args[1] = Micro
         /\ op.key = "valueF" => op.args[1] = Micro
    /\ Channels(self) = <<255, 255, 255>> =>
         /\ op.key = "saturationF" => op.args[1] = 0
         /\ op.key = "valueF" => op.args[1] = Micro

\* C18 happens: the saturation of pure red was read
C18_Witness ==
  /\ Channels(self) = <<255, 0, 0>>
  /\ op.name = "get"
  /\ op.key = "saturationF"
  /\ op.args = <<Micro>>

\* C19: the hue is in [0, 1), the saturation and the value are in [0, 1],
\* and the 8-bit hue, saturation and value are in 0..255.
C19_HSVRanges ==
  op.name = "get" =>
    /\ op.key = "hueF" => 0 <= op.args[1] /\ op.args[1] < Micro
    /\ op.key \in {"saturationF", "valueF"} =>
         0 <= op.args[1] /\ op.args[1] <= Micro
    /\ op.key \in {"hue", "saturation", "value"} => op.args[1] \in 0..255

\* C19 happens: a hue just below 1, from a red-most colour with more blue
\* than green, was read as its 8-bit value
C19_Witness ==
  /\ Channels(self) = <<255, 0, 1>>
  /\ op.name = "get"
  /\ op.key = "hue"
  /\ op.args = <<255>>

(***************************************************************************)
(* RGB (src/src/deprecated/_rgb.py): a RougeVertBleu with the operators    *)
(* -, + and binary - on the real-line views.  Each operator ends in        *)
(* cls(r, g, b) with three floats.  RGB's base class is the RougeVertBleu  *)
(* that `farvelade` exports: the class of farvelade/_rouge_vert_bleu.py    *)
(* has no overload for floats, the class that lies next to RGB in          *)
(* deprecated/_rouge_vert_bleu.py has one.  A call of cls(r, g, b) has the *)
(* outcomes of both.                                                       *)
(***************************************************************************)
\* deprecated/_rouge_vert_bleu.py, the overloads (float, float, float) and
\* (float, float, float, float): each argument is checked against [0, 1]
\* and stored as int(round(arg * 255))
__init__Float3Deprecated(this, args) ==
  IF \E i \in 1..3 : FineLess(Fine(Micro), args[i]) \/ FineLess(args[i], Fine(0))
  THEN Fail("UnitRangeException", this)
  ELSE Ok([red_channel   |-> <<PyRoundFine(FineMulF(args[1], IntToFloat(255)))>>,
           green_channel |-> <<PyRoundFine(FineMulF(args[2], IntToFloat(255)))>>,
           blue_channel  |-> <<PyRoundFine(FineMulF(args[3], IntToFloat(255)))>>])

\* cls(outR, outG, outB) for three floats
RGBConstruct(args) ==
  (IF \A i \in 1..3 : args[i].e = 0
   THEN __init__Float3(NewObject, <<args[1].m, args[2].m, args[3].m>>)
   ELSE {Fail("DispatchException", NewObject)})
  \cup {__init__Float3Deprecated(NewObject, args)}

\* what an operator returns or raises when cls(r, g, b) is its last call
Returned(out) ==
  IF out.err = NoError THEN OkV(Colour(out.self)) ELSE FailV(out.err)

\* self.redReal, self.greenReal, self.blueReal of a colour with channels in
\* 0..255
RealTriple(this) ==
  <<_getRedReal(this).val, _getGreenReal(this).val, _getBlueReal(this).val>>

\* RGB.__neg__
RGB__neg__(this) ==
  {Returned(out) :
     out \in RGBConstruct(<<_realToUnit(-RealTriple(this)[1]),
                            _realToUnit(-RealTriple(this)[2]),
                            _realToUnit(-RealTriple(this)[3])>>)}

\* lines 181-190 of RGB.__add__
RGBSum(this, that) ==
  {Returned(out) :
     out \in RGBConstruct(
       <<_realToUnit(RealTriple(this)[1] + RealTriple(that)[1]),
         _realToUnit(RealTriple(this)[2] + RealTriple(that)[2]),
         _realToUnit(RealTriple(this)[3] + RealTriple(that)[3])>>)}

\* RGB.__add__ once _resolveOther has returned or raised
RGBAddResolved(this, that) ==
  IF that.err # NoError THEN {that}
  ELSE IF that.val.kind = "NotImplemented" THEN {OkV(NotImplemented)}
  ELSE RGBSum(this, that.val.obj)

\* RGB.__add__
RGB__add__(this, operand) == RGBAddResolved(this, _resolveOther(this, operand))

\* self + -other, line 197
RGBPlusNegated(this, negated) ==
  IF negated.err # NoError THEN {negated} ELSE RGB__add__(this, negated.val)

\* RGB.__sub__ once _resolveOther has returned or raised
RGBSubResolved(this, that) ==
  IF that.err # NoError THEN {that}
  ELSE IF that.val.kind = "NotImplemented" THEN {OkV(NotImplemented)}
  ELSE UNION {RGBPlusNegated(this, negated) :
                negated \in RGB__neg__(that.val.obj)}

\* RGB.__sub__
RGB__sub__(this, operand) == RGBSubResolved(this, _resolveOther(this, operand))

(***************************************************************************)
(* SpecRGB: test_addition for any two colours: purple = red + blue, then   *)
(* susBlue = purple - red.  self is red, other is blue, and test holds the *)
(* colours the operators have returned so far.                             *)
(***************************************************************************)
RGBInputs == {0, 128, 255}

RGBColours ==
  {RougeVertBleu(r, g, b) : r \in RGBInputs, g \in RGBInputs, b \in RGBInputs}

InitRGB ==
  /\ self \in RGBColours
  /\ other \in RGBColours
  /\ err = NoError
  /\ op = Call("new", "self", "threeInts", <<>>)
  /\ test = <<>>

\* an operator of the test has returned or raised `out`
RGBStep(name, out) ==
  /\ err' = out.err
  /\ op' = Call(name, "self", "", <<>>)
  /\ test' = IF out.err = NoError THEN Append(test, out.val.obj) ELSE test
  /\ UNCHANGED <<self, other>>

\* purple = red + blue
RGBAdd ==
  /\ Len(test) = 0
  /\ \E out \in RGB__add__(self, Colour(other)) : RGBStep("__add__", out)

\* susBlue = purple - red
RGBSub ==
  /\ Len(test) = 1
  /\ \E out \in RGB__sub__(test[1], Colour(self)) : RGBStep("__sub__", out)

\* -red, of test_negation
RGBNeg ==
  /\ Len(test) = 2
  /\ \E out \in RGB__neg__(self) : RGBStep("__neg__", out)

NextRGB == RGBAdd \/ RGBSub \/ RGBNeg

SpecRGB == InitRGB /\ [][NextRGB]_vars

(***************************************************************************)
(* Properties of SpecRGB.                                                  *)
(***************************************************************************)
\* two colours whose channels differ by at most 1
AlmostSame(this, that) ==
  \A i \in 1..3 : Abs(Channels(this)[i] - Channels(that)[i]) <= 1

\* C17: a + b and (a + b) - a return colours, (a + b) - a is b up to the
\* rounding of a channel, and (red + blue) - red is blue exactly.
C17_SubtractionUndoesAddition ==
  /\ op.name \in {"__add__", "__sub__"} => err = NoError
  /\ (op.name = "__sub__" /\ err = NoError) =>
       /\ AlmostSame(test[2], other)
       /\ (Channels(self) = <<255, 0, 0>> /\ Channels(other) = <<0, 0, 255>>) =>
            Channels(test[2]) = <<0, 0, 255>>

(***************************************************************************)
(* OKLab (src/src/farvelade/_ok_lab.py): a RougeVertBleu with the views    *)
(* L, A and B.  The coefficients of the matrices are the ten-digit         *)
(* literals of the source rounded to millionths.                           *)
(***************************************************************************)
\* value ** (1 / 3) for a float value > 0
CubeRootOf(value) == CubeRootFn[<<value>>][2]

\* _cubeRoot: value ** 2 < epsilon is |value| < 1e-5, ten millionths
RECURSIVE _cubeRoot(_)
_cubeRoot(value) ==
  IF Abs(value) < 10 THEN 0
  ELSE IF value < 0 THEN -_cubeRoot(-value)
  ELSE CubeRootOf(value)

\* x ** 3
Cube(x) == MulF(MulF(x, x), x)

\* lines 58-60: the rows of L0, M0 and S0
LMSRows ==
  <<<<412221, 536333, 51446>>, <<211903, 680700, 107397>>,
    <<88302, 281719, 629979>>>>

\* lines 67-69: the rows of L, A and B
LabRows ==
  <<<<210454, 793618, -4072>>, <<1977998, -2428592, 450594>>,
    <<25904, 782772, -808676>>>>

\* lines 77-79: the rows of L0, M0 and S0 before the cube
LMSInverseRows ==
  <<<<Micro, 396338, 215804>>, <<Micro, -105561, -63854>>,
    <<Micro, -89484, -1291486>>>>

\* lines 82-84: the rows of r, g and b
RGBRows ==
  <<<<4076742, -3307712, 230970>>, <<-1268438, 2609757, -341319>>,
    <<-4196, -703419, 2409228>>>>

\* lines 62-64
CubeRoots(rgb) ==
  <<_cubeRoot(Row(LMSRows[1], rgb)), _cubeRoot(Row(LMSRows[2], rgb)),
    _cubeRoot(Row(LMSRows[3], rgb))>>

\* lines 67-71
LabOf(lms) == <<Row(LabRows[1], lms), Row(LabRows[2], lms), Row(LabRows[3], lms)>>

\* _getLab, for stored channels in 0..255
_getLab(this) == LabOf(CubeRoots(GammaTriple(this).val))

\* lines 77-79
Cubes(lab) ==
  <<Cube(Row(LMSInverseRows[1], lab)), Cube(Row(LMSInverseRows[2], lab)),
    Cube(Row(LMSInverseRows[3], lab))>>

\* lines 82-86
RGBOf(lms) == <<Row(RGBRows[1], lms), Row(RGBRows[2], lms), Row(RGBRows[3], lms)>>

\* _getGammaRGB
_getGammaRGB(_L, _A, _B) == RGBOf(Cubes(<<_L, _A, _B>>))

\* @L.GET, @A.GET, @B.GET
_getL(this) == _getLab(this)[1]

_getA(this) == _getLab(this)[2]

_getB(this) == _getLab(this)[3]

\* self.redGamma = r; self.greenGamma = g; self.blueGamma = b
SetGammaRGB(this, rgb) ==
  Then(Then(_setRedGamma(this, rgb[1]),
            LAMBDA s : _setGreenGamma(s, rgb[2])),
       LAMBDA s : _setBlueGamma(s, rgb[3]))

\* @L.SET, @A.SET, @B.SET
_setL(this, value) ==
  SetGammaRGB(this, _getGammaRGB(value, _getA(this), _getB(this)))

_setA(this, value) ==
  SetGammaRGB(this, _getGammaRGB(_getL(this), value, _getB(this)))

_setB(this, value) ==
  SetGammaRGB(this, _getGammaRGB(_getL(this), _getA(this), value))

(***************************************************************************)
(* The operators of OKLab.  An operator works on the objects that exist:   *)
(* heap is the sequence of them, an object is known by its place in it,    *)
(* and cls() puts a new white colour at the end.  An operator gives the    *)
(* heap it leaves, the exception that left it, and the place of the object *)
(* it returned (0 for NotImplemented).                                     *)
(***************************************************************************)
Left(heap, e, val) == [heap |-> heap, err |-> e, val |-> val]

\* out.<view> = value for the object `out`, where `set` is what the setter
\* left; an exception ends the operator
Assigned(st, out, set) ==
  Left([st.heap EXCEPT ![out] = set.self], set.err, out)

\* _resolveOther once cls(*args) has returned or raised
ResolvedOnHeap(heap, that) ==
  IF that.err # NoError THEN Left(heap, that.err, 0)
  ELSE IF that.val.kind = "NotImplemented" THEN Left(heap, NoError, 0)
  ELSE Left(Append(heap, that.val.obj), NoError, Len(heap) + 1)

\* _resolveOther: an operand that is a colour is returned as it is
LabResolve(heap, this, operand) ==
  IF operand.kind = "ref" THEN Left(heap, NoError, operand.id)
  ELSE ResolvedOnHeap(heap, _resolveOther(heap[this], operand))

\* the rest of an operator once _resolveOther has returned `res`
WithOther(res, Rest(_, _)) ==
  IF res.err # NoError \/ res.val = 0 THEN res ELSE Rest(res.heap, res.val)

\* the next statement of an operator, unless an exception has left it
AndThen(st, Statement(_)) == IF st.err # NoError THEN st ELSE Statement(st)

\* lines 140-143 of __add__ for the object `out`
AddInto(heap, out, this, that) ==
  AndThen(AndThen(
    Assigned(Left(heap, NoError, out), out,
             _setL(heap[out], DivF(_getL(heap[this]) + _getL(heap[that]),
                                   IntToFloat(2)))),
    LAMBDA st : Assigned(st, out,
                         _setA(st.heap[out],
                               _getA(st.heap[this]) + _getA(st.heap[that])))),
    LAMBDA st : Assigned(st, out,
                         _setB(st.heap[out],
                               _getB(st.heap[this]) + _getB(st.heap[that]))))

\* a faulty variant of AddResolved: `return self` in place of `return out`
AddReturnsSelf(heap, this, that) ==
  [AddInto(Append(heap, White), Len(heap) + 1, this, that) EXCEPT !.val = this]

\* lines 138-143 of __add__: out = cls() and the assignments to it
AddResolved(heap, this, that) ==
  AddInto(Append(heap, White), Len(heap) + 1, this, that)

\* OKLab.__add__
__add__(heap, this, operand) ==
  WithOther(LabResolve(heap, this, operand),
            LAMBDA h, that : AddResolved(h, this, that))

\* lines 150-153 of __neg__ for the object `out`
NegInto(heap, out, this) ==
  AndThen(AndThen(
    Assigned(Left(heap, NoError, out), out,
             _setL(heap[out], _getL(heap[this]))),
    LAMBDA st : Assigned(st, out, _setA(st.heap[out], -_getA(st.heap[this])))),
    LAMBDA st : Assigned(st, out, _setB(st.heap[out], -_getB(st.heap[this]))))

\* OKLab.__neg__
__neg__(heap, this) == NegInto(Append(heap, White), Len(heap) + 1, this)

\* OKLab.__sub__: self + -other
__sub__(heap, this, operand) ==
  WithOther(LabResolve(heap, this, operand),
            LAMBDA h, that :
              AndThen(__neg__(h, that),
                      LAMBDA n : __add__(n.heap, this,
                                         [kind |-> "ref", id |-> n.val])))

\* x * y / (x + y) of lines 174-179: a float division by 0.0 raises
\* ZeroDivisionError
Harmonic(x, y) ==
  IF x + y = 0 THEN FailV("ZeroDivisionError")
  ELSE OkV(DivF(MulF(x, y), x + y))

\* lines 174-179 of __mul__
HarmonicTriple(this, that) ==
  Triple(Harmonic(_getRedReal(this).val, _getRedReal(that).val),
         Harmonic(_getGreenReal(this).val, _getGreenReal(that).val),
         Harmonic(_getBlueReal(this).val, _getBlueReal(that).val))

\* out.redReal = r; out.greenReal = g; out.blueReal = b
SetRealRGB(this, rgb) ==
  Then(Then(_setRedReal(this, rgb[1]),
            LAMBDA s : _setGreenReal(s, rgb[2])),
       LAMBDA s : _setBlueReal(s, rgb[3]))

\* lines 180-184 of __mul__ and lines 194-198 of __invert__ for a new object
RealsInto(heap, out, rgb) ==
  IF rgb.err # NoError THEN Left(heap, rgb.err, 0)
  ELSE Assigned(Left(heap, NoError, out), out, SetRealRGB(heap[out], rgb.val))

\* OKLab.__mul__: the quotients are computed before out = cls()
__mul__(heap, this, operand) ==
  WithOther(LabResolve(heap, this, operand),
            LAMBDA h, that :
              IF HarmonicTriple(h[this], h[that]).err # NoError
              THEN Left(h, HarmonicTriple(h[this], h[that]).err, 0)
              ELSE RealsInto(Append(h, White), Len(h) + 1,
                             HarmonicTriple(h[this], h[that])))

\* 1 / x of lines 191-193
Reciprocal(x) ==
  IF x = 0 THEN FailV("ZeroDivisionError") ELSE OkV(DivF(Micro, x))

\* OKLab.__invert__: out = cls() comes first
__invert__(heap, this) ==
  RealsInto(Append(heap, White), Len(heap) + 1,
            Triple(Reciprocal(_getRedReal(heap[this]).val),
                   Reciprocal(_getGreenReal(heap[this]).val),
                   Reciprocal(_getBlueReal(heap[this]).val)))

\* OKLab.__truediv__: self * ~other
__truediv__(heap, this, operand) ==
  WithOther(LabResolve(heap, this, operand),
            LAMBDA h, that :
              AndThen(__invert__(h, that),
                      LAMBDA n : __mul__(n.heap, this,
                                         [kind |-> "ref", id |-> n.val])))

(***************************************************************************)
(* SpecLab: two OKLab colours, self and other, under the operators.  test  *)
(* holds the objects that the last operator created.                       *)
(***************************************************************************)
LabColours ==
  {RougeVertBleu(255, 255, 255), RougeVertBleu(255, 0, 0),
   RougeVertBleu(0, 255, 255), RougeVertBleu(128, 128, 128),
   RougeVertBleu(64, 64, 64), RougeVertBleu(12, 200, 77)}

\* right operands that are not colours
LabOperands ==
  {[kind |-> "tuple", items |-> <<64, 64, 64>>],
   [kind |-> "tuple", items |-> <<64, 64>>],
   [kind |-> "number", value |-> 5]}

\* the right operand `other`
OtherRef == [kind |-> "ref", id |-> 2]

InitLab ==
  /\ self \in LabColours
  /\ other \in LabColours
  /\ err = NoError
  /\ op = Call("new", "self", "", <<>>)
  /\ test = <<>>

\* an operator has left `res` behind
LabStep(name, key, res) ==
  /\ self' = res.heap[1]
  /\ other' = res.heap[2]
  /\ test' = SubSeq(res.heap, 3, Len(res.heap))
  /\ err' = res.err
  /\ op' = Call(name, "self", key, <<res.val>>)

\* self + other
LabAdd == LabStep("__add__", "colour", __add__(<<self, other>>, 1, OtherRef))

\* self + operand for an operand that is not a colour
LabAddOperand(operand) ==
  LabStep("__add__", operand.kind, __add__(<<self, other>>, 1, operand))

\* -self
LabNeg == LabStep("__neg__", "colour", __neg__(<<self, other>>, 1))

\* self - other
LabSub == LabStep("__sub__", "colour", __sub__(<<self, other>>, 1, OtherRef))

\* self * other
LabMul == LabStep("__mul__", "colour", __mul__(<<self, other>>, 1, OtherRef))

\* ~self
LabInvert == LabStep("__invert__", "colour", __invert__(<<self, other>>, 1))

\* self / other
LabDiv ==
  LabStep("__truediv__", "colour", __truediv__(<<self, other>>, 1, OtherRef))

NextLab ==
  \/ LabAdd
  \/ \E operand \in LabOperands : LabAddOperand(operand)
  \/ LabNeg
  \/ LabSub
  \/ LabMul
  \/ LabInvert
  \/ LabDiv

SpecLab == InitLab /\ [][NextLab]_vars

(***************************************************************************)
(* Properties of SpecLab.                                                  *)
(***************************************************************************)
\* the difference that the rounding of the channels may leave in a view
LabTolerance == Micro \div 50

Near(x, y) == Abs(x - y) <= LabTolerance

\* C14: self + other returns a colour whose L is the mean of the operands'
\* L and whose A and B are the sums of the operands' A and B, up to the
\* rounding of the channels.
C14_AddLab ==
  (op.name = "__add__" /\ op.key = "colour") =>
    /\ err = NoError
    /\ Near(_getL(test[1]), DivF(_getL(self) + _getL(other), IntToFloat(2)))
    /\ Near(_getA(test[1]), _getA(self) + _getA(other))
    /\ Near(_getB(test[1]), _getB(self) + _getB(other))

\* the last operator divided by zero: a product whose real-line operands
\* sum to zero in some channel, or an inverse of a real-line channel of zero
ZeroDenominator ==
  \/ /\ op.name = "__mul__"
     /\ \E i \in 1..3 : RealTriple(self)[i] + RealTriple(other)[i] = 0
  \/ /\ op.name = "__invert__"
     /\ \E i \in 1..3 : RealTriple(self)[i] = 0

\* C15: an operator that divides by zero raises DegenerateOperationError.
C15_DegenerateOperation ==
  ZeroDenominator => err = "DegenerateOperationError"

\* the calls of the operators on colours
IsOperator(call) ==
  /\ call.name \in {"__add__", "__neg__", "__sub__", "__mul__", "__invert__",
                    "__truediv__"}
  /\ call.key = "colour"

\* C16: an operator of OKLab on colours leaves the stored channels of self
\* and other as they were, whether it returns or raises, and the colour it
\* returns is an object that did not exist before.
C16_OperandsUnchanged ==
  [][IsOperator(op') =>
       /\ self' = self
       /\ other' = other
       /\ err' = NoError => op'.args[1] \notin {1, 2}]_vars

\* C16 happens: a subtraction returned the second of the two objects it
\* created
C16_Witness ==
  /\ Channels(self) = <<128, 128, 128>>
  /\ Channels(other) = <<64, 64, 64>>
  /\ op.name = "__sub__"
  /\ err = NoError
  /\ op.args = <<4>>
  /\ Len(test) = 2

(***************************************************************************)
(* Slices.  A slice is a record of start, stop and step, each None or a    *)
(* one-element tuple holding the int.                                      *)
(***************************************************************************)
Slice(start, stop, step) == [start |-> start, stop |-> stop, step |-> step]

\* range(start, stop) as a sequence
Range(start, stop) == [i \in 1..(IF stop > start THEN stop - start ELSE 0) |-> start + i - 1]

\* [self[i] for i in indexes]: the items in order, or the first exception
RECURSIVE ItemsOf(_, _, _)
ItemsOf(this, indexes, done) ==
  IF indexes = <<>> THEN OkV(done)
  ELSE IF __getitem__Int(this, Head(indexes)).err # NoError
  THEN FailV(__getitem__Int(this, Head(indexes)).err)
  ELSE ItemsOf(this, Tail(indexes), Append(done, __getitem__Int(this, Head(indexes)).val))

\* the start and stop the slice overload works with
SliceStart(index) == IF index.start = None THEN 0 ELSE index.start[1]

SliceStop(this, index) == IF index.stop = None THEN __len__(this) ELSE index.stop[1]

\* @overload(slice) __getitem__: index.step is not read
__getitem__Slice(this, index) ==
  IF SliceStart(index) < 0 \/ SliceStop(this, index) > __len__(this)
  THEN FailV("IndexError")
  ELSE ItemsOf(this, Range(SliceStart(index), SliceStop(this, index)), <<>>)

\* Python's slice.indices(length) for a bound that is given: a negative
\* bound counts from the end, then it is clamped to lower..upper
ClampBound(bound, length, lower, upper) ==
  IF bound < 0
  THEN (IF bound + length < lower THEN lower ELSE bound + length)
  ELSE (IF bound > upper THEN upper ELSE bound)

SliceStep(index) == IF index.step = None THEN 1 ELSE index.step[1]

Lower(index) == IF SliceStep(index) < 0 THEN -1 ELSE 0

Upper(index, length) == IF SliceStep(index) < 0 THEN length - 1 ELSE length

IndicesStart(index, length) ==
  IF index.start = None
  THEN (IF SliceStep(index) < 0 THEN Upper(index, length) ELSE Lower(index))
  ELSE ClampBound(index.start[1], length, Lower(index), Upper(index, length))

IndicesStop(index, length) ==
  IF index.stop = None
  THEN (IF SliceStep(index) < 0 THEN Lower(index) ELSE Upper(index, length))
  ELSE ClampBound(index.stop[1], length, Lower(index), Upper(index, length))

\* range(start, stop, step) as a sequence of 0-based positions
RECURSIVE SteppedRange(_, _, _)
SteppedRange(start, stop, step) ==
  IF (step > 0 /\ start >= stop) \/ (step < 0 /\ start <= stop) THEN <<>>
  ELSE <<start>> \o SteppedRange(start + step, stop, step)

\* values[index] for a Python list `values`
ListSlice(values, index) ==
  [k \in 1..Len(SteppedRange(IndicesStart(index, Len(values)),
                             IndicesStop(index, Len(values)), SliceStep(index))) |->
     values[SteppedRange(IndicesStart(index, Len(values)),
                         IndicesStop(index, Len(values)), SliceStep(index))[k] + 1]]

(***************************************************************************)
(* SpecSlice: a colour is built, then read through slices.                 *)
(***************************************************************************)
SliceChannels == {0, 7, 255}

SliceStarts == {None, <<-3>>, <<-1>>, <<0>>, <<1>>, <<2>>, <<3>>}

SliceStops == {None, <<-3>>, <<-1>>, <<0>>, <<1>>, <<2>>, <<3>>, <<4>>}

SliceSteps == {None, <<-1>>, <<1>>, <<2>>}

InitSlice ==
  /\ self = White
  /\ other = White
  /\ err = NoError
  /\ op = Call("new", "self", "kwargs", <<>>)
  /\ test = <<>>

\* self = RougeVertBleu(r, g, b)
SliceNew(args) ==
  /\ self' = __init__Int3(NewObject, args).self
  /\ err' = __init__Int3(NewObject, args).err
  /\ op' = Call("new", "self", "threeInts", args)
  /\ UNCHANGED <<other, test>>

\* self[start:stop:step]
GetSlice(index) ==
  /\ err' = __getitem__Slice(self, index).err
  /\ op' = Call("getslice", "self", "", <<index>> \o Outcome(__getitem__Slice(self, index)))
  /\ UNCHANGED <<self, other, test>>

NextSlice ==
  \/ \E r \in SliceChannels, g \in SliceChannels, b \in SliceChannels : SliceNew(<<r, g, b>>)
  \/ \E start \in SliceStarts, stop \in SliceStops, step \in SliceSteps :
       GetSlice(Slice(start, stop, step))

SpecSlice == InitSlice /\ [][NextSlice]_vars

\* C21: for every colour and every slice, self[slice] returns the list
\* [self.red, self.green, self.blue][slice]: same length, same items in the
\* same order, and no exception.
C21_SliceAgreesWithList ==
  op.name = "getslice" =>
    /\ err = NoError
    /\ op.args[2] = ListSlice(Channels(self), op.args[1])

(***************************************************************************)
(* Item assignment in Spec.                                                *)
(***************************************************************************)
\* the attribute that self[index] = v or self[key] = v stands for
AttributeOf(call) ==
  IF call.key = "" THEN <<"red", "green", "blue">>[call.args[1] + 1] ELSE call.key

\* the value of an item assignment
ItemValue(call) == IF call.key = "" THEN call.args[2] ELSE call.args[1]

\* an item assignment the claim speaks of: index 0..2, or the key of a
\* channel, a unit-float view or a real-domain view
IsItemAssignment(call) ==
  /\ call.name = "setitem"
  /\ \/ call.key = "" /\ call.args[1] \in 0..2
     \/ call.key \in ChannelNames \cup UnitNames \cup RealNames

\* C22: self[i] = v for i in 0..2 and self[key] = v for the keys of the
\* channels, the unit-float views and the real-domain views leave self in
\* the state that the assignment to the attribute of that name leaves it
\* in, and no exception leaves the item assignment.
C22_ItemAssignmentIsAttributeAssignment ==
  [][IsItemAssignment(op') =>
       /\ self' = __setattr__(self, AttributeOf(op'), ItemValue(op')).self
       /\ err' = NoError]_vars

\* C22 happens: self['blueReal'] = atanh-value of 127 after red was set to 0
C22_Witness ==
  /\ op = Call("setitem", "self", "blueReal", <<realF(127)>>)
  /\ err = NoError
  /\ Channels(self) = <<0, 255, 127>>

(***************************************************************************)
(* sample_card.Pixel.  A pixel is a record of x, y and __iter_contents__,  *)
(* which is None or a one-element tuple holding the list.                  *)
(***************************************************************************)
\* Pixel(): x and y are AttriBox[int](0), the class has __iter_contents__ = None
NewPixel == [x |-> 0, y |-> 0, __iter_contents__ |-> None]

Pixel__len__(this) == 2

\* @overload(int, int) Pixel.__setitem__: the raise at the end of the body is
\* reached after the assignment too
RECURSIVE Pixel__setitem__Int(_, _, _)
Pixel__setitem__Int(this, index, value) ==
  IF index < 0 THEN Pixel__setitem__Int(this, index + Pixel__len__(this), value)
  ELSE IF index < Pixel__len__(this)
  THEN (IF index = 0 THEN Fail("IndexError", [this EXCEPT !.x = value])
        ELSE Fail("IndexError", [this EXCEPT !.y = value]))
  ELSE Fail("IndexError", this)

\* Pixel.__iter__ that keeps a list it already has
Pixel__iter__KeepsContents(this) ==
  IF this.__iter_contents__ = None
  THEN [this EXCEPT !.__iter_contents__ = <<<<this.x, this.y>>>>]
  ELSE this

\* Pixel.__iter__: a new list of x and y; the pixel is its own iterator
Pixel__iter__(this) == [this EXCEPT !.__iter_contents__ = <<<<this.x, this.y>>>>]

\* `if self.__iter_contents__`: None and the empty list are false
Truthy(contents) == contents # None /\ contents[1] # <<>>

\* Pixel.__next__: the value popped and the pixel after the pop, or
\* StopIteration
Pixel__next__(this) ==
  IF Truthy(this.__iter_contents__)
  THEN [err |-> NoError, val |-> Head(this.__iter_contents__[1]),
        self |-> [this EXCEPT !.__iter_contents__ = <<Tail(this.__iter_contents__[1])>>]]
  ELSE [err |-> "StopIteration", val |-> 0, self |-> this]

(***************************************************************************)
(* Consumers of an iteration: a for loop or an unpacking calls iter() once *)
(* and next() until an exception.  `test` holds two consumers.             *)
(***************************************************************************)
\* a consumer that has not called iter()
Idle == [state |-> "idle", got |-> <<>>, first |-> <<>>, overlapped |-> FALSE,
         raised |-> NoError]

\* the consumer after iter(): `first` is what the object held at that moment
Started(first, overlapped) ==
  [state |-> "active", got |-> <<>>, first |-> first, overlapped |-> overlapped,
   raised |-> NoError]

\* the consumer after a next() with outcome res
Advanced(consumer, res) ==
  IF res.err = NoError THEN [consumer EXCEPT !.got = Append(@, res.val)]
  ELSE [consumer EXCEPT !.state = "done", !.raised = res.err]

\* the other consumer, marked when an iteration starts while it is active
Overlap(consumer) ==
  IF consumer.state = "active" THEN [consumer EXCEPT !.overlapped = TRUE] ELSE consumer

\* the consumers after consumer k called iter() on an object holding `first`
StartedBy(k, first) ==
  [i \in 1..2 |-> IF i = k THEN Started(first, test[3 - k].state = "active")
                  ELSE Overlap(test[i])]

(***************************************************************************)
(* SpecPixel: one pixel under assignments, item assignments and two        *)
(* consumers that iterate over it.                                         *)
(***************************************************************************)
PixelInputs == {1, 7}

PixelIndexes == {-3, -2, -1, 0, 1, 2}

InitPixel ==
  /\ self = NewPixel
  /\ other = NewPixel
  /\ err = NoError
  /\ op = Call("new", "self", "", <<>>)
  /\ test = <<Idle, Idle>>

\* self.x = value or self.y = value
PixelAssign(name, value) ==
  /\ self' = IF name = "x" THEN [self EXCEPT !.x = value] ELSE [self EXCEPT !.y = value]
  /\ err' = NoError
  /\ op' = Call("setattr", "self", name, <<value>>)
  /\ UNCHANGED <<other, test>>

\* self[index] = value
PixelSetItem(index, value) ==
  /\ self' = Pixel__setitem__Int(self, index, value).self
  /\ err' = Pixel__setitem__Int(self, index, value).err
  /\ op' = Call("setitem", "self", "", <<index, value>>)
  /\ UNCHANGED <<other, test>>

\* consumer k calls iter(self)
PixelIter(k) ==
  /\ test[k].state = "idle"
  /\ self' = Pixel__iter__(self)
  /\ err' = NoError
  /\ op' = Call("iter", "self", "", <<k>>)
  /\ test' = StartedBy(k, <<self.x, self.y>>)
  /\ UNCHANGED other

\* consumer k calls next(self)
PixelNext(k) ==
  /\ test[k].state = "active"
  /\ self' = Pixel__next__(self).self
  /\ err' = Pixel__next__(self).err
  /\ op' = Call("next", "self", "", <<k>>)
  /\ test' = [test EXCEPT ![k] = Advanced(@, Pixel__next__(self))]
  /\ UNCHANGED other

NextPixel ==
  \/ \E name \in {"x", "y"}, value \in PixelInputs : PixelAssign(name, value)
  \/ \E index \in PixelIndexes, value \in PixelInputs : PixelSetItem(index, value)
  \/ \E k \in 1..2 : PixelIter(k)
  \/ \E k \in 1..2 : PixelNext(k)

SpecPixel == InitPixel /\ [][NextPixel]_vars

\* C23: p[0] = v and p[-2] = v set x, p[1] = v and p[-1] = v set y, the
\* other coordinate stays and no exception is raised; any other index
\* raises IndexError (and changes nothing).
C23_PixelSetItem ==
  [][op'.name = "setitem" =>
       IF op'.args[1] \in {0, -2}
       THEN err' = NoError /\ self'.x = op'.args[2] /\ self'.y = self.y
       ELSE IF op'.args[1] \in {1, -1}
       THEN err' = NoError /\ self'.y = op'.args[2] /\ self'.x = self.x
       ELSE err' = "IndexError" /\ self'.x = self.x /\ self'.y = self.y]_vars

\* C24: an iteration of a pixel that no other iteration overlaps yields x,
\* then y, as they were when it started, and then ends with StopIteration;
\* so does an iteration started after an earlier one has ended.
C24_PixelIteration ==
  \A k \in 1..2 :
    ~test[k].overlapped =>
      /\ test[k].state = "active" => test[k].got = SubSeq(test[k].first, 1, Len(test[k].got))
      /\ test[k].state = "done" =>
           test[k].got = test[k].first /\ test[k].raised = "StopIteration"

\* C24 happens: the second iteration ran after the first had ended and after
\* the coordinates were changed in between
C24_Witness ==
  /\ test[1].state = "done" /\ test[1].first = <<0, 0>> /\ ~test[1].overlapped
  /\ test[2].state = "done" /\ test[2].first = <<7, 1>> /\ ~test[2].overlapped
  /\ test[2].got = <<7, 1>>
  /\ self.x = 1

\* C29 (Pixel): every iteration of a pixel, overlapped by another iteration
\* of the same pixel or not, yields the whole of x, y in order.
C29_SharedIteration ==
  \A k \in 1..2 : test[k].state = "done" => test[k].got = test[k].first

(***************************************************************************)
(* Failed assignments in SpecTest.                                         *)
(***************************************************************************)
\* C25: when an assignment to X, Y or Z fails with a domain error, the
\* stored red, green and blue channels are what they were before the
\* assignment (other holds the copy taken before it).
C25_AllOrNothing ==
  (test.kind = "xyz" /\ op.name = "setattr"
     /\ err \in {"UnitDomainException", "IntegerDomainException"}) =>
    Stored(self) = Stored(other)

(***************************************************************************)
(* Iteration of a colour.  The attribute __iter_contents__ of the colour   *)
(* is None or a one-element tuple holding the list.                        *)
(***************************************************************************)
\* RougeVertBleu.__iter__: the list [self.red, self.green, self.blue]
Colour__iter__(this) == <<Channels(this)>>

\* the finally clause of __next__: an empty list (or None) is replaced by None
Emptied(contents) == IF Truthy(contents) THEN contents ELSE None

\* RougeVertBleu.__next__ on the contents: None has no pop, which is an
\* AttributeError and not the IndexError the try catches
Colour__next__(contents) ==
  IF contents = None
  THEN [err |-> "AttributeError", val |-> 0, contents |-> None]
  ELSE IF contents[1] = <<>>
  THEN [err |-> "StopIteration", val |-> 0, contents |-> None]
  ELSE [err |-> NoError, val |-> Head(contents[1]),
        contents |-> Emptied(<<Tail(contents[1])>>)]

\* [*self]: next() until an exception; StopIteration ends the list, any
\* other exception leaves the expression
RECURSIVE Drain(_, _)
Drain(contents, done) ==
  IF Colour__next__(contents).err = "StopIteration" THEN OkV(done)
  ELSE IF Colour__next__(contents).err # NoError THEN FailV(Colour__next__(contents).err)
  ELSE Drain(Colour__next__(contents).contents, Append(done, Colour__next__(contents).val))

\* any(values)
AnyOf(values) == \E i \in DOMAIN values : values[i] # 0

\* RougeVertBleu.__bool__: True if any([*self, ]) else False
__bool__(this) ==
  IF Drain(Colour__iter__(this), <<>>).err # NoError
  THEN FailV(Drain(Colour__iter__(this), <<>>).err)
  ELSE OkV(AnyOf(Drain(Colour__iter__(this), <<>>).val))

(***************************************************************************)
(* SpecIter: a colour is built, iterated with next() called up to MaxCalls *)
(* times, and tested with bool().  `test` holds the colour's               *)
(* __iter_contents__, the channels at the last iter() and the outcomes of  *)
(* the next() calls since.                                                 *)
(***************************************************************************)
MaxCalls == 5

IterChannels == {0, 7, 255}

Fresh == [__iter_contents__ |-> None, first |-> <<>>, calls |-> <<>>]

InitIter ==
  /\ self = White
  /\ other = White
  /\ err = NoError
  /\ op = Call("new", "self", "kwargs", <<>>)
  /\ test = Fresh

\* self = RougeVertBleu(r, g, b)
IterNew(args) ==
  /\ self' = __init__Int3(NewObject, args).self
  /\ err' = __init__Int3(NewObject, args).err
  /\ op' = Call("new", "self", "threeInts", args)
  /\ test' = Fresh
  /\ UNCHANGED other

\* iter(self)
ColourIter ==
  /\ test' = [__iter_contents__ |-> Colour__iter__(self), first |-> Channels(self),
              calls |-> <<>>]
  /\ err' = NoError
  /\ op' = Call("iter", "self", "", <<>>)
  /\ UNCHANGED <<self, other>>

\* the outcome of a call as the log keeps it
Logged(res) == IF res.err = NoError THEN <<res.val>> ELSE res.err

\* next(self), after iter(self)
ColourNext ==
  /\ test.first # <<>>
  /\ Len(test.calls) < MaxCalls
  /\ test' = [test EXCEPT !.__iter_contents__ = Colour__next__(@).contents,
                          !.calls = Append(@, Logged(Colour__next__(test.__iter_contents__)))]
  /\ err' = Colour__next__(test.__iter_contents__).err
  /\ op' = Call("next", "self", "", <<>>)
  /\ UNCHANGED <<self, other>>

\* bool(self): whatever the outcome, the list is used up
ColourBool ==
  /\ err' = __bool__(self).err
  /\ op' = Call("bool", "self", "", Outcome(__bool__(self)))
  /\ test' = [__iter_contents__ |-> None, first |-> <<>>, calls |-> <<>>]
  /\ UNCHANGED <<self, other>>

NextIter ==
  \/ \E r \in IterChannels, g \in IterChannels, b \in IterChannels : IterNew(<<r, g, b>>)
  \/ ColourIter
  \/ ColourNext
  \/ ColourBool

SpecIter == InitIter /\ [][NextIter]_vars

\* C26: after iter(), the first three next() calls return red, green and
\* blue, the fourth and every later call raises StopIteration; bool(colour)
\* returns without an exception and is False exactly for black.
C26_ColourIteration ==
  /\ \A i \in 1..Len(test.calls) :
       test.calls[i] = IF i <= 3 THEN <<test.first[i]>> ELSE "StopIteration"
  /\ op.name = "bool" =>
       err = NoError /\ op.args = <<Channels(self) # <<0, 0, 0>>>>

(***************************************************************************)
(* sample_card.Region.  A region is a record of left, top, right, bottom.  *)
(***************************************************************************)
\* Pixel(x, y)
PixelAt(x, y) == [NewPixel EXCEPT !.x = x, !.y = y]

\* Region(): left and top are AttriBox[int](0), right and bottom AttriBox[int](1)
NewRegion == [left |-> 0, top |-> 0, right |-> 1, bottom |-> 1]

\* @overload(int, int, int, int) Region.__init__
Region__init__Int4(this, args) ==
  [this EXCEPT !.left = args[1], !.top = args[2], !.right = args[3], !.bottom = args[4]]

_getTopLeft(this) == PixelAt(this.left, this.top)

_getBottomRight(this) == PixelAt(this.right, this.bottom)

\* @overload(Pixel) Region.__contains__
Region__contains__Pixel(this, pixel) ==
  IF this.left <= pixel.x /\ pixel.x < this.right
  THEN (IF this.top <= pixel.y /\ pixel.y < this.bottom THEN TRUE ELSE FALSE)
  ELSE FALSE

\* @overload(THIS) Region.__contains__
Region__contains__This(this, that) ==
  IF ~Region__contains__Pixel(this, _getTopLeft(that)) THEN FALSE
  ELSE IF ~Region__contains__Pixel(this, _getBottomRight(that)) THEN FALSE
  ELSE TRUE

(***************************************************************************)
(* SpecRegion: two regions are built, then asked for the pixels and the    *)
(* region they contain.                                                    *)
(***************************************************************************)
MaxCoordinate == 2

Coordinates == 0..MaxCoordinate

InitRegion ==
  /\ self = NewRegion
  /\ other = NewRegion
  /\ err = NoError
  /\ op = Call("new", "self", "", <<>>)
  /\ test = <<>>

\* self = Region(left, top, right, bottom)
RegionNew(args) ==
  /\ self' = Region__init__Int4(NewRegion, args)
  /\ err' = NoError
  /\ op' = Call("new", "self", "", args)
  /\ UNCHANGED <<other, test>>

\* other = Region(left, top, right, bottom)
RegionNewOther(args) ==
  /\ other' = Region__init__Int4(NewRegion, args)
  /\ err' = NoError
  /\ op' = Call("new", "other", "", args)
  /\ UNCHANGED <<self, test>>

\* Pixel(x, y) in self
ContainsPixel(x, y) ==
  /\ op' = Call("contains", "self", "pixel", <<x, y, Region__contains__Pixel(self, PixelAt(x, y))>>)
  /\ err' = NoError
  /\ UNCHANGED <<self, other, test>>

\* other in self
ContainsRegion ==
  /\ op' = Call("contains", "self", "region", <<Region__contains__This(self, other)>>)
  /\ err' = NoError
  /\ UNCHANGED <<self, other, test>>

NextRegion ==
  \/ \E l \in Coordinates, t \in Coordinates, r \in Coordinates, b \in Coordinates :
       RegionNew(<<l, t, r, b>>)
  \/ \E l \in Coordinates, t \in Coordinates, r \in Coordinates, b \in Coordinates :
       RegionNewOther(<<l, t, r, b>>)
  \/ \E x \in Coordinates, y \in Coordinates : ContainsPixel(x, y)
  \/ ContainsRegion

SpecRegion == InitRegion /\ [][NextRegion]_vars

\* the pixel (x, y) lies in the half-open box of the region
InBox(region, x, y) ==
  /\ region.left <= x /\ x < region.right
  /\ region.top <= y /\ y < region.bottom

\* every pixel of region b is a pixel of region a
Covers(a, b) ==
  \A x \in Coordinates, y \in Coordinates : InBox(b, x, y) => InBox(a, x, y)

\* C28: `pixel in region` is left <= x < right and top <= y < bottom, and
\* `b in a` for regions is: every pixel in b is in a; so a region with
\* positive width and height contains itself.
C28_RegionContainment ==
  op.name = "contains" =>
    IF op.key = "pixel" THEN op.args[3] = InBox(self, op.args[1], op.args[2])
    ELSE op.args[1] = Covers(self, other)

(***************************************************************************)
(* sample_card.SampleCard.  A card is a record of __paint_regions__ and    *)
(* __base_color__, each None or a one-element tuple holding the value; a   *)
(* paint region is a pair of a region and a colour.                        *)
(***************************************************************************)
NewCard == [__paint_regions__ |-> None, __base_color__ |-> None]

\* __fallback_color__: OKLab(255, 255, 255)
__fallback_color__ == RougeVertBleu(255, 255, 255)

\* _getPaintRegions: maybe(self.__paint_regions__, [])
_getPaintRegions(this) ==
  IF this.__paint_regions__ = None THEN <<>> ELSE this.__paint_regions__[1]

\* @overload(Region, OKLab) _addPaintRegion: the new pair goes in front
_addPaintRegion(this, region, color) ==
  [this EXCEPT !.__paint_regions__ = <<<<<<region, color>>>> \o _getPaintRegions(this)>>]

\* _getBaseColor: a missing base colour is created from the fallback and
\* kept
_getBaseColor(this) ==
  IF this.__base_color__ = None
  THEN [err |-> NoError, val |-> __fallback_color__,
        self |-> [this EXCEPT !.__base_color__ = <<__fallback_color__>>]]
  ELSE [err |-> NoError, val |-> this.__base_color__[1], self |-> this]

\* the loop of __getitem__ over the pairs: the colour of the first pair
\* whose region contains the pixel, else self.baseColor
RECURSIVE FirstContaining(_, _, _)
FirstContaining(this, pairs, pixel) ==
  IF pairs = <<>> THEN _getBaseColor(this)
  ELSE IF Region__contains__Pixel(Head(pairs)[1], pixel)
  THEN [err |-> NoError, val |-> Head(pairs)[2], self |-> this]
  ELSE FirstContaining(this, Tail(pairs), pixel)

\* @overload(Pixel) SampleCard.__getitem__: the loop reads
\* self.__paint_regions__ itself, and None cannot be iterated
Card__getitem__Pixel(this, pixel) ==
  IF this.__paint_regions__ = None
  THEN [err |-> "TypeError", val |-> 0, self |-> this]
  ELSE FirstContaining(this, this.__paint_regions__[1], pixel)

(***************************************************************************)
(* SpecCard: paint regions are added to a card and pixels are looked up.   *)
(* `test` is the list of the additions in the order they were made.        *)
(***************************************************************************)
MaxRegions == 3

PaintRegionInputs ==
  {Region__init__Int4(NewRegion, <<0, 0, 2, 2>>),
   Region__init__Int4(NewRegion, <<1, 1, 3, 3>>),
   Region__init__Int4(NewRegion, <<0, 0, 1, 1>>)}

PaintColours == {RougeVertBleu(255, 0, 0), RougeVertBleu(0, 255, 255)}

CardPixels == {PixelAt(x, y) : x \in 0..3, y \in 0..3}

InitCard ==
  /\ self = NewCard
  /\ other = NewCard
  /\ err = NoError
  /\ op = Call("new", "self", "", <<>>)
  /\ test = <<>>

\* self._addPaintRegion(region, color)
AddPaintRegion(region, color) ==
  /\ Len(test) < MaxRegions
  /\ self' = _addPaintRegion(self, region, color)
  /\ err' = NoError
  /\ op' = Call("_addPaintRegion", "self", "", <<region, color>>)
  /\ test' = Append(test, <<region, color>>)
  /\ UNCHANGED other

\* self[pixel]
LookUp(pixel) ==
  /\ self' = Card__getitem__Pixel(self, pixel).self
  /\ err' = Card__getitem__Pixel(self, pixel).err
  /\ op' = Call("getitem", "self", "", <<pixel>> \o Outcome(Card__getitem__Pixel(self, pixel)))
  /\ UNCHANGED <<other, test>>

NextCard ==
  \/ \E region \in PaintRegionInputs, color \in PaintColours : AddPaintRegion(region, color)
  \/ \E pixel \in CardPixels : LookUp(pixel)

SpecCard == InitCard /\ [][NextCard]_vars

\* the colour of the latest addition whose region holds the pixel, the
\* base colour if there is none
RECURSIVE LatestContaining(_, _)
LatestContaining(added, pixel) ==
  IF added = <<>> THEN __fallback_color__
  ELSE IF InBox(added[Len(added)][1], pixel.x, pixel.y) THEN added[Len(added)][2]
  ELSE LatestContaining(SubSeq(added, 1, Len(added) - 1), pixel)

\* C27: after any additions of paint regions, none included, self[pixel]
\* returns the colour of the most recently added region that contains the
\* pixel, or the base colour when no added region contains it, and raises
\* nothing.
C27_LookUpLatestRegion ==
  op.name = "getitem" =>
    /\ err = NoError
    /\ op.args[2] = LatestContaining(test, op.args[1])

(***************************************************************************)
(* BMPGen.render.  The buffer is the sequence of the bytes written.        *)
(***************************************************************************)
\* n.to_bytes(length, 'little')
RECURSIVE to_bytes(_, _)
to_bytes(n, length) ==
  IF length = 0 THEN <<>> ELSE <<n % 256>> \o to_bytes(n \div 256, length - 1)

\* int.from_bytes(bytes, 'little')
RECURSIVE from_bytes(_)
from_bytes(bytes) ==
  IF bytes = <<>> THEN 0 ELSE Head(bytes) + 256 * from_bytes(Tail(bytes))

\* a painter registered through PAINT: the (r, g, b) of the pixel (x, y)
Painter(x, y) == <<(40 * x) % 256, (60 * y) % 256, 255>>

\* the two headers render writes, 54 bytes
Headers(this) ==
  <<66, 77>>
    \o to_bytes(this.width * this.height * 3 + 54, 4)
    \o to_bytes(0, 4)
    \o to_bytes(54, 4)
    \o to_bytes(40, 4)
    \o to_bytes(this.width, 4)
    \o to_bytes(this.height, 4)
    \o to_bytes(1, 2)
    \o to_bytes(24, 2)
    \o to_bytes(0, 4)
    \o to_bytes(this.width * this.height * 3, 4)
    \o to_bytes(2835, 4)
    \o to_bytes(2835, 4)
    \o to_bytes(0, 4)
    \o to_bytes(0, 4)

\* bytes([b, g, r]) for the pixels x, x + 1, ... of row y
RECURSIVE RowPixels(_, _, _)
RowPixels(this, x, y) ==
  IF x >= this.width THEN <<>>
  ELSE <<Painter(x, y)[3], Painter(x, y)[2], Painter(x, y)[1]>> \o RowPixels(this, x + 1, y)

\* b'\x00' * ((4 - (self.width * 3) % 4) % 4)
Padding(this) == [i \in 1..((4 - ((this.width * 3) % 4)) % 4) |-> 0]

\* the rows y, y + 1, ..., each followed by its padding
RECURSIVE Rows(_, _)
Rows(this, y) ==
  IF y >= this.height THEN <<>>
  ELSE RowPixels(this, 0, y) \o Padding(this) \o Rows(this, y + 1)

\* render(buffer): everything written to the buffer
render(this) == Headers(this) \o Rows(this, 0)

(***************************************************************************)
(* SpecBMP: the width and height of a generator are set and it is          *)
(* rendered, for sizes up to MaxWidth by MaxHeight; `test` is the buffer   *)
(* of the last render.                                                     *)
(***************************************************************************)
MaxWidth == 5

MaxHeight == 3

\* BMPGen(): width and height are AttriBox[int](128)
NewBMPGen == [width |-> 128, height |-> 128]

InitBMP ==
  /\ self = NewBMPGen
  /\ other = NewBMPGen
  /\ err = NoError
  /\ op = Call("new", "self", "", <<>>)
  /\ test = <<>>

\* self.width = value
SetWidth(value) ==
  /\ self' = [self EXCEPT !.width = value]
  /\ err' = NoError
  /\ op' = Call("setattr", "self", "width", <<value>>)
  /\ UNCHANGED <<other, test>>

\* self.height = value
SetHeight(value) ==
  /\ self' = [self EXCEPT !.height = value]
  /\ err' = NoError
  /\ op' = Call("setattr", "self", "height", <<value>>)
  /\ UNCHANGED <<other, test>>

\* self.render(buffer) on a new buffer
Render ==
  /\ self.width <= MaxWidth
  /\ self.height <= MaxHeight
  /\ test' = render(self)
  /\ err' = NoError
  /\ op' = Call("render", "self", "", <<>>)
  /\ UNCHANGED <<self, other>>

NextBMP ==
  \/ \E value \in 0..MaxWidth : SetWidth(value)
  \/ \E value \in 0..MaxHeight : SetHeight(value)
  \/ Render

SpecBMP == InitBMP /\ [][NextBMP]_vars

\* the file-size field: bytes 2..5 of the file
FileSizeField(buffer) == from_bytes(SubSeq(buffer, 3, 6))

\* the image-size field: bytes 34..37 of the file
ImageSizeField(buffer) == from_bytes(SubSeq(buffer, 35, 38))

\* C30: after render, the file-size field is the number of bytes written
\* and the image-size field is the number of bytes written after the 54
\* header bytes.
C30_SizeFields ==
  op.name = "render" =>
    /\ FileSizeField(test) = Len(test)
    /\ ImageSizeField(test) = Len(test) - 54

====
